---------------------------- MODULE Spec2Model ----------------------------
(***************************************************************************)
(* A model of the structured-record text engine of NiLab's jalign scripts: *)
(*   src/jalign/divide_histogram.py  (equal-width and equal-count binning) *)
(*   src/jalign/lst2star.py          (LST x LST join, STAR filter)         *)
(*   src/jalign/deprecated/lstFiltered2star.py                             *)
(* and of the optics-group renumbering of its warp scripts:                *)
(*   src/warp/delete_ogs.py, src/warp/split_matchingstar.py                *)
(*                                                                         *)
(* Python floats are modelled as exact numbers.  A finite value is an      *)
(* integer multiple of Unit, where Unit is divisible by every bin count of *)
(* the model, so that (vmax - vmin) / bins and vmin + i * step are exact;  *)
(* IEEE rounding error is not modelled.  The non-finite floats inf, -inf   *)
(* and nan are modelled by three reserved numbers and every arithmetic     *)
(* and comparison operator treats them as Python does.                     *)
(***************************************************************************)
EXTENDS Integers, Sequences, FiniteSets, TLC

VARIABLES
    \* divide_histogram.py
    args,          \* the parsed command line: bins, vmin, vmax, samesize, onlyhist
    pe_entries,    \* the (orig_line, value) entries parsed from the input file
    pc,            \* where process_entries is
    pe_vmin,       \* the effective range (lines 303-304)
    pe_vmax,
    res,           \* what the binning function returned or raised
    out_dir,       \* TRUE once os.makedirs(args.output_dir) has run
    bucket_files,  \* the bucket files written so far, in order
    hist_file,     \* TRUE once the histogram picture is saved
    status         \* "running", "ok", or the exception / exit status that ended the run

dhVars == <<args, pe_entries, pc, pe_vmin, pe_vmax, res, out_dir, bucket_files, hist_file, status>>

VARIABLES
    \* lst2star.py and deprecated/lstFiltered2star.py
    script,        \* which of the two scripts runs
    flt,           \* the filter arguments of the command line
    lstA,          \* the data rows of the Jalign output .lst (--lst / --lst1)
    lstB,          \* the Jalign input .lst (--lst2): None when the file is missing
    jpc,           \* where main is
    tmp_lst,       \* lst2star: tmp.lst, None until merge_lst creates it
    kept_images,   \* lst2star: the list read_lst returned
    keep_idxs,     \* lstFiltered2star: the set read_lst1 returned
    mapping,       \* lstFiltered2star: the tags read_lst2 returned, by row
    keep_images,   \* lstFiltered2star: the set of tags to keep
    in_star,       \* the particle rows of the input STAR file, once it is read
    out_star,      \* the output STAR file: None until it is written
    jstatus        \* "running", "ok", or the exit status / exception of the run

lstVars == <<script, flt, lstA, lstB, jpc, tmp_lst, kept_images, keep_idxs, mapping,
             keep_images, in_star, out_star, jstatus>>

VARIABLES
    \* one call of a function of the scripts on its own
    fn,            \* the function that is called, "none" when there is no call
    fn_in,         \* its arguments
    fn_out,        \* what it returned or raised, once fn_done
    fn_done        \* TRUE once the call has been made

fnVars == <<fn, fn_in, fn_out, fn_done>>

VARIABLES
    \* warp/delete_ogs.py and warp/split_matchingstar.py
    og_tool,       \* which of the two scripts runs
    og_args,       \* the command line: the optics groups of --og
    og_tomo,       \* matching_tomograms.star as it is on disk before the run
    og_match,      \* matching.star as it is on disk before the run
    og_pc,         \* where main is
    og_maps,       \* split_matchingstar: what fix_dose_split_tomograms returned for the two halves
    og_files,      \* the files the run has written so far, by role
    og_status      \* "running", "ok", or the exception that ended the run

ogVars == <<og_tool, og_args, og_tomo, og_match, og_pc, og_maps, og_files, og_status>>

----------------------------------------------------------------------------
(* Bounds of the model. *)

\* longest list of parsed entries
MaxLen == 2
\* most data rows of the Jalign output .lst
MaxRowsA == 2
\* most data rows of the Jalign input .lst
MaxRowsB == 2
\* most particle rows of the input STAR file
MaxStarRows == 1
\* largest bin count (--bins)
MaxBins == 3
\* finite values are 0, Unit, ..., MaxVal * Unit
MaxVal == 2

----------------------------------------------------------------------------
(* Python values. *)

\* an optional value (an argument, a file) is the empty set (None) or the set of its value
None == {}
Some(x) == {x}
TheValue(opt) == CHOOSE x \in opt : TRUE

AllSeqs(S, n) == UNION {[1..k -> S] : k \in 0..n}

----------------------------------------------------------------------------
(* Python floats. *)

\* float('inf'), float('-inf'), float('nan') as parsed by float(val_str): three
\* reserved numbers that are no finite value of the model; they are never
\* compared or computed with as numbers, only through the operators below
PosInf == 1000000
NegInf == 3000000
NaN == 2000000

RECURSIVE Factorial(_)
Factorial(n) == IF n <= 1 THEN 1 ELSE n * Factorial(n - 1)

Unit == Factorial(MaxBins)

FiniteVals == {k * Unit : k \in 0..MaxVal}
Floats == FiniteVals \cup {PosInf, NegInf, NaN}

\* math.isfinite
isfinite(x) == x \notin {PosInf, NegInf, NaN}

\* float comparisons: every comparison with nan is False, -inf is below and
\* +inf above every finite value
Lt(a, b) ==
    /\ a # NaN /\ b # NaN /\ a # b
    /\ \/ a = NegInf
       \/ b = PosInf
       \/ isfinite(a) /\ isfinite(b) /\ a < b
Le(a, b) == a # NaN /\ b # NaN /\ (a = b \/ Lt(a, b))
Gt(a, b) == Lt(b, a)
Ge(a, b) == Le(b, a)
Eq(a, b) == a # NaN /\ b # NaN /\ a = b

\* a - b
FSub(a, b) ==
    IF a = NaN \/ b = NaN THEN NaN
    ELSE IF a = PosInf THEN (IF b = PosInf THEN NaN ELSE PosInf)
    ELSE IF a = NegInf THEN (IF b = NegInf THEN NaN ELSE NegInf)
    ELSE IF b = PosInf THEN NegInf
    ELSE IF b = NegInf THEN PosInf
    ELSE a - b

\* a + b
FAdd(a, b) ==
    IF a = NaN \/ b = NaN THEN NaN
    ELSE IF a = PosInf THEN (IF b = NegInf THEN NaN ELSE PosInf)
    ELSE IF a = NegInf THEN (IF b = PosInf THEN NaN ELSE NegInf)
    ELSE IF b \in {PosInf, NegInf} THEN b
    ELSE a + b

\* a / n for an int n >= 1 (exact: finite a is a multiple of Unit)
FDivInt(a, n) == IF isfinite(a) THEN a \div n ELSE a

\* i * s for an int i >= 0
FMulInt(i, s) ==
    IF s = NaN THEN NaN
    ELSE IF s \in {PosInf, NegInf} THEN (IF i = 0 THEN NaN ELSE s)
    ELSE i * s

\* int(a / s): "none" with the truncated quotient, or the exception raised
\*   float division by zero -> ZeroDivisionError
\*   int(nan) -> ValueError, int(+-inf) -> OverflowError
IntOfQuotient(a, s) ==
    IF a = NaN \/ s = NaN THEN [err |-> "ValueError", n |-> 0]
    ELSE IF s = 0 THEN [err |-> "ZeroDivisionError", n |-> 0]
    ELSE IF ~isfinite(a) /\ ~isfinite(s) THEN [err |-> "ValueError", n |-> 0]
    ELSE IF ~isfinite(a) THEN [err |-> "OverflowError", n |-> 0]
    ELSE IF ~isfinite(s) THEN [err |-> "none", n |-> 0]
    ELSE LET q == (IF a < 0 THEN -a ELSE a) \div (IF s < 0 THEN -s ELSE s)
         IN  [err |-> "none", n |-> IF (a < 0) = (s < 0) THEN q ELSE -q]

\* a mutant of RoundDiv: halves rounded up
RoundDiv_HalfUp(p, q) == (2 * p + q) \div (2 * q)

\* int(round(p / q)) for ints p >= 0, q >= 1: Python rounds halves to even
RoundDiv(p, q) ==
    LET f == p \div q
        r == p % q
    IN  IF 2 * r < q THEN f
        ELSE IF 2 * r > q THEN f + 1
        ELSE IF f % 2 = 0 THEN f ELSE f + 1

----------------------------------------------------------------------------
(* divide_histogram.py: the two binning functions.                         *)
(* An entry is the tuple (orig_line, value); orig_line is modelled by the  *)
(* number of the input line it was parsed from.                            *)

Entry(l, v) == [line |-> l, val |-> v]

\* a function's outcome: the exception it raised, or "none" and its results
Raised(e) == [err |-> e, buckets |-> <<>>, edges |-> <<>>, skipped |-> 0]
Returned(b, e, s) == [err |-> "none", buckets |-> b, edges |-> e, skipped |-> s]

\* a mutant of PlaceEntry: the lower bound of the range is exclusive
PlaceEntry_ExclusiveMin(val, bins, vmin, vmax, step) ==
    IF ~isfinite(val) THEN [err |-> "none", skip |-> TRUE, idx |-> 0]
    ELSE IF Le(val, vmin) \/ Gt(val, vmax)
        THEN [err |-> "none", skip |-> TRUE, idx |-> 0]
    ELSE IF Eq(val, vmax) THEN [err |-> "none", skip |-> FALSE, idx |-> bins - 1]
    ELSE LET q == IntOfQuotient(FSub(val, vmin), step)
         IN  IF q.err # "none" THEN [err |-> q.err, skip |-> FALSE, idx |-> 0]
             ELSE IF q.n >= bins
                 THEN [err |-> "none", skip |-> FALSE, idx |-> bins - 1]
             ELSE [err |-> "none", skip |-> FALSE, idx |-> q.n]

\* lines 186-204: where one entry goes: "skip", "bin" with its index, or the
\* exception int() or the division raised
PlaceEntry(val, bins, vmin, vmax, step) ==
    IF ~isfinite(val) THEN [err |-> "none", skip |-> TRUE, idx |-> 0]
    ELSE IF Lt(val, vmin) \/ Gt(val, vmax)
        THEN [err |-> "none", skip |-> TRUE, idx |-> 0]
    ELSE IF Eq(val, vmax) THEN [err |-> "none", skip |-> FALSE, idx |-> bins - 1]
    ELSE LET q == IntOfQuotient(FSub(val, vmin), step)
         IN  IF q.err # "none" THEN [err |-> q.err, skip |-> FALSE, idx |-> 0]
             ELSE IF q.n < 0 THEN [err |-> "none", skip |-> FALSE, idx |-> 0]
             ELSE IF q.n >= bins
                 THEN [err |-> "none", skip |-> FALSE, idx |-> bins - 1]
             ELSE [err |-> "none", skip |-> FALSE, idx |-> q.n]

\* the loop of lines 186-204 from entry k on (bucket indices are 1-based here:
\* buckets[b + 1] is Python's buckets[b])
RECURSIVE AssignLoop(_, _, _, _, _, _, _, _)
AssignLoop(entries, k, bins, vmin, vmax, step, buckets, skipped) ==
    IF k > Len(entries) THEN [err |-> "none", buckets |-> buckets, skipped |-> skipped]
    ELSE LET p == PlaceEntry(entries[k].val, bins, vmin, vmax, step)
         IN  IF p.err # "none"
                 THEN [err |-> p.err, buckets |-> buckets, skipped |-> skipped]
             ELSE IF p.skip
                 THEN AssignLoop(entries, k + 1, bins, vmin, vmax, step,
                                 buckets, skipped + 1)
             ELSE AssignLoop(entries, k + 1, bins, vmin, vmax, step,
                     [buckets EXCEPT ![p.idx + 1] = Append(@, entries[k])],
                     skipped)

\* lines 180-181: edges[i + 1] is Python's edges[i]
BinEdges(bins, vmin, vmax) ==
    LET step == FDivInt(FSub(vmax, vmin), bins)
    IN  [i \in 1..(bins + 1) |-> FAdd(vmin, FMulInt(i - 1, step))]

assign_bins(entries, bins, vmin, vmax) ==
    IF bins < 1 THEN Raised("ValueError")
    ELSE LET step == FDivInt(FSub(vmax, vmin), bins)
             r == AssignLoop(entries, 1, bins, vmin, vmax, step,
                             [i \in 1..bins |-> <<>>], 0)
         IN  IF r.err # "none" THEN Raised(r.err)
             ELSE Returned(r.buckets, BinEdges(bins, vmin, vmax), r.skipped)

\* a mutant of InRange: the lower bound of the range is exclusive
RECURSIVE InRange_ExclusiveMin(_, _, _)
InRange_ExclusiveMin(entries, vmin, vmax) ==
    IF entries = <<>> THEN <<>>
    ELSE LET e == Head(entries)
             rest == InRange_ExclusiveMin(Tail(entries), vmin, vmax)
         IN  IF Lt(vmin, e.val) /\ Le(e.val, vmax) THEN <<e>> \o rest ELSE rest

\* line 216: the entries with vmin <= val <= vmax, in input order
RECURSIVE InRange(_, _, _)
InRange(entries, vmin, vmax) ==
    IF entries = <<>> THEN <<>>
    ELSE LET e == Head(entries)
             rest == InRange(Tail(entries), vmin, vmax)
         IN  IF Le(vmin, e.val) /\ Le(e.val, vmax) THEN <<e>> \o rest ELSE rest

\* a mutant of InsertSorted: e goes before the entries of its own value
RECURSIVE InsertSorted_BeforeEqual(_, _)
InsertSorted_BeforeEqual(e, s) ==
    IF s = <<>> THEN <<e>>
    ELSE IF Le(e.val, Head(s).val) THEN <<e>> \o s
    ELSE <<Head(s)>> \o InsertSorted_BeforeEqual(e, Tail(s))

\* line 223: sorted(in_range, key=value) is a stable sort; e goes after every
\* entry already placed whose value is not greater
RECURSIVE InsertSorted(_, _)
InsertSorted(e, s) ==
    IF s = <<>> THEN <<e>>
    ELSE IF Lt(e.val, Head(s).val) THEN <<e>> \o s
    ELSE <<Head(s)>> \o InsertSorted(e, Tail(s))

\* a mutant of SortedByValue: the entries are left in input order
SortedByValue_Unsorted(s) == s

RECURSIVE SortedByValue(_)
SortedByValue(s) ==
    IF s = <<>> THEN <<>>
    ELSE InsertSorted(s[Len(s)], SortedByValue(SubSeq(s, 1, Len(s) - 1)))

\* line 226: idx_edges[i] for i in 0..bins
IdxEdge(i, total, bins) == RoundDiv(i * total, bins)

\* lines 229-232: entries_sorted[start:end]
Slice(s, start, end) == SubSeq(s, start + 1, end)

assign_bins_same_size(entries, bins, vmin, vmax) ==
    IF bins < 1 THEN Raised("ValueError")
    ELSE LET in_range == InRange(entries, vmin, vmax)
             skipped == Len(entries) - Len(in_range)
             entries_sorted == SortedByValue(in_range)
             total == Len(entries_sorted)
         IN  IF in_range = <<>>
                 THEN [Raised("ValueError") EXCEPT !.skipped = skipped]
             ELSE Returned(
                 [i \in 1..bins |-> Slice(entries_sorted,
                                          IdxEdge(i - 1, total, bins),
                                          IdxEdge(i, total, bins))],
                 [i \in 1..(bins + 1) |->
                     IF IdxEdge(i - 1, total, bins) < total
                     THEN entries_sorted[IdxEdge(i - 1, total, bins) + 1].val
                     ELSE entries_sorted[total].val],
                 skipped)

----------------------------------------------------------------------------
(* divide_histogram.py: process_entries.                                   *)

\* min(vals), max(vals): Python keeps the first item and replaces it by a
\* later one only when that one compares smaller (greater)
RECURSIVE PyMin(_, _, _)
PyMin(vals, k, best) ==
    IF k > Len(vals) THEN best
    ELSE PyMin(vals, k + 1, IF Lt(vals[k], best) THEN vals[k] ELSE best)

RECURSIVE PyMax(_, _, _)
PyMax(vals, k, best) ==
    IF k > Len(vals) THEN best
    ELSE PyMax(vals, k + 1, IF Gt(vals[k], best) THEN vals[k] ELSE best)

Vals(es) == [i \in 1..Len(es) |-> es[i].val]
computed_min(es) == PyMin(Vals(es), 2, es[1].val)
computed_max(es) == PyMax(Vals(es), 2, es[1].val)

\* the values --min / --max are given in the model
ArgVals == {None} \cup {Some(v) : v \in FiniteVals}

\* res before a binning function is called
NoResult == Raised("not called")

DHInit ==
    /\ \E vs \in AllSeqs(Floats, MaxLen) :
          pe_entries = [i \in 1..Len(vs) |-> Entry(i, vs[i])]
    /\ \E b \in 0..MaxBins, lo \in ArgVals, hi \in ArgVals,
          ss \in BOOLEAN, oh \in BOOLEAN :
          args = [bins |-> b, vmin |-> lo, vmax |-> hi,
                  samesize |-> ss, onlyhist |-> oh]
    /\ pc = "start"
    /\ pe_vmin = 0
    /\ pe_vmax = 0
    /\ res = NoResult
    /\ out_dir = FALSE
    /\ bucket_files = <<>>
    /\ hist_file = FALSE
    /\ status = "running"

\* a mutant of CheckRange: only vmin > vmax is rejected
CheckRange_EqualAccepted ==
    /\ pc = "start"
    /\ IF pe_entries = <<>>
       THEN /\ pc' = "end"
            /\ status' = "KeyError"
            /\ UNCHANGED <<pe_vmin, pe_vmax>>
       ELSE LET lo == IF args.vmin # None THEN TheValue(args.vmin)
                      ELSE computed_min(pe_entries)
                hi == IF args.vmax # None THEN TheValue(args.vmax)
                      ELSE computed_max(pe_entries)
            IN  /\ pe_vmin' = lo
                /\ pe_vmax' = hi
                /\ IF Gt(lo, hi)
                   THEN pc' = "end" /\ status' = "exit 2"
                   ELSE pc' = "bin" /\ status' = status
    /\ UNCHANGED <<args, pe_entries, res, out_dir, bucket_files, hist_file>>
    /\ UNCHANGED <<lstVars, fnVars, ogVars>>

\* lines 297-307: no entries -> KeyError; resolve the range; vmin >= vmax -> exit 2
CheckRange ==
    /\ pc = "start"
    /\ IF pe_entries = <<>>
       THEN /\ pc' = "end"
            /\ status' = "KeyError"
            /\ UNCHANGED <<pe_vmin, pe_vmax>>
       ELSE LET lo == IF args.vmin # None THEN TheValue(args.vmin)
                      ELSE computed_min(pe_entries)
                hi == IF args.vmax # None THEN TheValue(args.vmax)
                      ELSE computed_max(pe_entries)
            IN  /\ pe_vmin' = lo
                /\ pe_vmax' = hi
                /\ IF Ge(lo, hi)
                   THEN pc' = "end" /\ status' = "exit 2"
                   ELSE pc' = "bin" /\ status' = status
    /\ UNCHANGED <<args, pe_entries, res, out_dir, bucket_files, hist_file>>
    /\ UNCHANGED <<lstVars, fnVars, ogVars>>

\* the exception of a binning function is not caught: it ends the run
AfterBinning(r) ==
    /\ res' = r
    /\ IF r.err # "none"
       THEN pc' = "end" /\ status' = r.err
       ELSE pc' = "write" /\ status' = status
    /\ UNCHANGED <<args, pe_entries, pe_vmin, pe_vmax, out_dir, bucket_files, hist_file>>
    /\ UNCHANGED <<lstVars, fnVars, ogVars>>

\* lines 315-317
BinSameSize ==
    /\ pc = "bin"
    /\ args.samesize
    /\ AfterBinning(assign_bins_same_size(pe_entries, args.bins, pe_vmin, pe_vmax))

\* lines 318-320
BinEqualWidth ==
    /\ pc = "bin"
    /\ ~args.samesize
    /\ AfterBinning(assign_bins(pe_entries, args.bins, pe_vmin, pe_vmax))

\* lines 330-339: unless --onlyhist, make the directory and write one file per
\* bucket (a bucket file is modelled by the lines of its entries)
WriteBuckets ==
    /\ pc = "write"
    /\ IF args.onlyhist
       THEN UNCHANGED <<out_dir, bucket_files>>
       ELSE /\ out_dir' = TRUE
            /\ bucket_files' = [i \in 1..Len(res.buckets) |->
                                   [k \in 1..Len(res.buckets[i]) |->
                                       res.buckets[i][k].line]]
    /\ pc' = "hist"
    /\ UNCHANGED <<args, pe_entries, pe_vmin, pe_vmax, res, hist_file, status>>
    /\ UNCHANGED <<lstVars, fnVars, ogVars>>

\* lines 341-343 and main's "Done."
SaveHistogram ==
    /\ pc = "hist"
    /\ hist_file' = TRUE
    /\ pc' = "end"
    /\ status' = "ok"
    /\ UNCHANGED <<args, pe_entries, pe_vmin, pe_vmax, res, out_dir, bucket_files>>
    /\ UNCHANGED <<lstVars, fnVars, ogVars>>

DHNext == CheckRange \/ BinSameSize \/ BinEqualWidth \/ WriteBuckets \/ SaveHistogram


----------------------------------------------------------------------------
(* Vocabulary of the binning claims.  Buckets and edges are numbered from  *)
(* 0 as in the Python code: bucket i is res.buckets[i + 1], edges[i] is    *)
(* res.edges[i + 1].                                                       *)

EqualWidthCalled == ~args.samesize /\ res # NoResult
SameSizeCalled == args.samesize /\ res # NoResult
BinningReturned == res.err = "none"

Bucket(i) == res.buckets[i + 1]
Edge(i) == res.edges[i + 1]
InBucket(i, e) == \E k \in 1..Len(Bucket(i)) : Bucket(i)[k] = e
BucketIds == 0..(Len(res.buckets) - 1)
EntrySet == {pe_entries[k] : k \in 1..Len(pe_entries)}
Retained == {e \in EntrySet : \E i \in BucketIds : InBucket(i, e)}
InsideRange(e) == Le(pe_vmin, e.val) /\ Le(e.val, pe_vmax)

\* how many times entry e occurs in the buckets
Occurrences(e) ==
    Cardinality({p \in BucketIds \X (1..MaxLen + 1) :
                    p[2] <= Len(Bucket(p[1])) /\ Bucket(p[1])[p[2]] = e})

RECURSIVE SumLen(_, _)
SumLen(bs, k) == IF k > Len(bs) THEN 0 ELSE Len(bs[k]) + SumLen(bs, k + 1)

\* floor((v - vmin) / step) clamped to [0, bins - 1], step = (vmax - vmin) / bins:
\* for a finite range the i with i * step <= v - vmin < (i + 1) * step; an
\* infinite step makes the quotient of a finite v zero
ClampedFloorIndex(v) ==
    LET bins == args.bins
        w == pe_vmax - pe_vmin
        i == IF isfinite(pe_vmin) /\ isfinite(pe_vmax)
             THEN CHOOSE j \in 0..bins :
                     j * w <= (v - pe_vmin) * bins /\ (v - pe_vmin) * bins < (j + 1) * w
             ELSE 0
    IN  IF i > bins - 1 THEN bins - 1 ELSE i

\* what C1 says of a call assign_bins(entries, bins, vmin, vmax) that is made
EqualWidthPlacement ==
    /\ BinningReturned
    /\ \A e \in EntrySet :
          isfinite(e.val) /\ InsideRange(e) =>
             /\ InBucket(ClampedFloorIndex(e.val), e)
             /\ (Eq(e.val, pe_vmax) => InBucket(args.bins - 1, e))
    /\ \A i \in BucketIds : \A e \in Retained :
          InBucket(i, e) <=>
             /\ Le(Edge(i), e.val)
             /\ IF i < args.bins - 1 THEN Lt(e.val, Edge(i + 1))
                                     ELSE Le(e.val, Edge(i + 1))

PartitionOf(Kept(_)) ==
    /\ \A e \in EntrySet : Kept(e) => Occurrences(e) = 1
    /\ \A e \in EntrySet : Lt(e.val, pe_vmin) \/ Gt(e.val, pe_vmax) => Occurrences(e) = 0
    /\ res.skipped = Len(pe_entries) - SumLen(res.buckets, 1)

\* C2 as stated: both binning operations put each entry with vmin <= value <=
\* vmax in exactly one bucket exactly once and each entry with value < vmin or
\* value > vmax in none, and report skipped = len(entries) - entries in buckets.
C2_AsStated ==
    (EqualWidthCalled \/ SameSizeCalled) /\ BinningReturned => PartitionOf(InsideRange)

FiniteInsideRange(e) == isfinite(e.val) /\ InsideRange(e)

\* C2 amended: assign_bins_same_size as stated; assign_bins puts each finite
\* entry with vmin <= value <= vmax in exactly one bucket once, and each entry
\* with value < vmin or value > vmax and each non-finite entry in none;
\* skipped = len(entries) - entries in buckets.
C2_PartitionFiniteInRange ==
    /\ SameSizeCalled /\ BinningReturned => PartitionOf(InsideRange)
    /\ EqualWidthCalled /\ BinningReturned =>
          /\ PartitionOf(FiniteInsideRange)
          /\ \A e \in EntrySet : ~isfinite(e.val) => Occurrences(e) = 0

\* an equal-width run whose range ends at +inf: a finite entry is placed, the
\* entry equal to vmax = +inf is skipped
C2_Witness ==
    /\ EqualWidthCalled /\ BinningReturned
    /\ pe_vmax = PosInf
    /\ \E e \in EntrySet : e.val = PosInf /\ Occurrences(e) = 0
    /\ \E e \in EntrySet : isfinite(e.val) /\ Occurrences(e) = 1
    /\ res.skipped >= 1

\* the number of entries with vmin <= value <= vmax
TotalInRange == Cardinality({e \in EntrySet : InsideRange(e)})

\* c is round(p / q): the nearest integer, a half going to the even neighbour
IsRounded(c, p, q) ==
    LET d == IF q * c >= p THEN q * c - p ELSE p - q * c
    IN  2 * d < q \/ (2 * d = q /\ c % 2 = 0)

\* C3: assign_bins_same_size returns exactly bins buckets; bucket i has
\* round((i+1)*total/bins) - round(i*total/bins) entries, the first cut index is 0
\* and the last is total, and two buckets differ in size by at most one.
C3_EqualCountSizes ==
    SameSizeCalled /\ BinningReturned =>
        /\ Len(res.buckets) = args.bins
        /\ \E cut \in [0..args.bins -> 0..TotalInRange] :
              /\ cut[0] = 0
              /\ cut[args.bins] = TotalInRange
              /\ \A i \in 0..args.bins : IsRounded(cut[i], i * TotalInRange, args.bins)
              /\ \A i \in BucketIds : Len(Bucket(i)) = cut[i + 1] - cut[i]
        /\ \A i \in BucketIds : \A j \in BucketIds :
              Len(Bucket(i)) - Len(Bucket(j)) <= 1

\* one in-range entry cut in two buckets: the cut index round(0.5) is 0, so
\* the entry is in the second bucket (and one entry was skipped)
C3_Witness ==
    /\ SameSizeCalled /\ BinningReturned
    /\ args.bins = 2 /\ TotalInRange = 1 /\ res.skipped = 1
    /\ Len(Bucket(0)) = 0 /\ Len(Bucket(1)) = 1

\* C4 as stated: every entry of a non-final bucket i of assign_bins_same_size
\* has edges[i] <= value < edges[i+1], every entry of the final bucket has
\* edges[bins-1] <= value <= edges[bins], for every input list.
C4_AsStated ==
    SameSizeCalled /\ BinningReturned =>
        \A i \in BucketIds : \A k \in 1..Len(Bucket(i)) :
            /\ Le(Edge(i), Bucket(i)[k].val)
            /\ IF i < args.bins - 1 THEN Lt(Bucket(i)[k].val, Edge(i + 1))
                                    ELSE Le(Bucket(i)[k].val, Edge(i + 1))

DistinctInRangeValues ==
    \A e \in EntrySet : \A f \in EntrySet :
        InsideRange(e) /\ InsideRange(f) /\ e # f => e.val # f.val

\* the cut index idx_edges[i]: the number of entries in the buckets before i
CutIndex(i) == SumLen(SubSeq(res.buckets, 1, i), 1)

\* C4 amended: every entry of bucket i has edges[i] <= value <= edges[i+1]; the
\* upper bound is strict for a non-final bucket i when the in-range values are
\* pairwise distinct and cut index i+1 is less than total.
C4_EqualCountClosedIntervals ==
    SameSizeCalled /\ BinningReturned =>
        \A i \in BucketIds : \A k \in 1..Len(Bucket(i)) :
            /\ Le(Edge(i), Bucket(i)[k].val)
            /\ Le(Bucket(i)[k].val, Edge(i + 1))
            /\ (i < args.bins - 1 /\ DistinctInRangeValues
                   /\ CutIndex(i + 1) < TotalInRange)
               => Lt(Bucket(i)[k].val, Edge(i + 1))

\* two entries of one value on both sides of a cut: the first is in a non-final
\* bucket and equals that bucket's upper edge
C4_Witness ==
    /\ SameSizeCalled /\ BinningReturned
    /\ \E i \in BucketIds : \E k \in 1..Len(Bucket(i)) :
          /\ i < args.bins - 1
          /\ Len(Bucket(i + 1)) > 0
          /\ Bucket(i)[k].val = Edge(i + 1)
          /\ Bucket(i + 1)[1].val = Edge(i + 1)

\* the range was accepted (line 305) and no entry has a value inside it
NoEntryInRange ==
    /\ pc \in {"bin", "write", "hist"} \/ res # NoResult
    /\ \A e \in EntrySet : ~InsideRange(e)

\* C5: when no entry has a value inside [vmin, vmax], divide_histogram fails in
\* both binning modes and writes no bucket file; it never completes with
\* buckets that are all empty.
C5_EmptyRangeFails ==
    NoEntryInRange => status # "ok" /\ bucket_files = <<>>

\* all values of the input are equal
AllValuesEqual == \A e \in EntrySet : \A f \in EntrySet : e.val = f.val

\* the range process_entries arrives at (lines 300-304)
EffectiveMin == IF args.vmin # None THEN TheValue(args.vmin) ELSE computed_min(pe_entries)
EffectiveMax == IF args.vmax # None THEN TheValue(args.vmax) ELSE computed_max(pe_entries)
RangeRejected == pe_entries # <<>> /\ Ge(EffectiveMin, EffectiveMax)

NothingCreated == ~out_dir /\ bucket_files = <<>> /\ ~hist_file

\* C7: when bins < 1 or the effective range has vmin >= vmax, the run ends with
\* an error (exit status 2 for the range, else ValueError for bins; KeyError
\* when there was no entry to take a range from) and no output directory,
\* bucket file or histogram file is ever created.
C7_InvalidParametersAbort ==
    (args.bins < 1 \/ RangeRejected) =>
        /\ NothingCreated
        /\ status # "ok"
        /\ pc = "end" =>
              status = IF pe_entries = <<>> THEN "KeyError"
                       ELSE IF RangeRejected THEN "exit 2"
                       ELSE "ValueError"

\* two equal values and no --min/--max: the run ended with exit status 2
C7_Witness ==
    /\ pc = "end" /\ status = "exit 2"
    /\ Len(pe_entries) >= 2 /\ AllValuesEqual /\ isfinite(pe_entries[1].val)
    /\ args.vmin = None /\ args.vmax = None
    /\ NothingCreated

----------------------------------------------------------------------------
(* lst2star.py and lstFiltered2star.py: the image tag.                     *)
(* A string is a sequence of characters; a path is one opaque character.   *)

DigitChars == <<"0", "1", "2", "3", "4", "5", "6", "7", "8", "9">>

\* str(n)
RECURSIVE Str(_)
Str(n) ==
    IF n < 0 THEN <<"-">> \o Str(-n)
    ELSE IF n < 10 THEN <<DigitChars[n + 1]>>
    ELSE Str(n \div 10) \o <<DigitChars[(n % 10) + 1]>>

\* a mutant of zfill: the zeros are appended
zfill_PadRight(s, width) ==
    LET zeros == [i \in 1..(width - Len(s)) |-> "0"]
    IN  IF Len(s) >= width THEN s ELSE s \o zeros

\* s.zfill(width): zeros go after a leading sign; a longer s is returned as is
zfill(s, width) ==
    LET zeros == [i \in 1..(width - Len(s)) |-> "0"]
    IN  IF Len(s) >= width THEN s
        ELSE IF s[1] \in {"-", "+"} THEN <<s[1]>> \o zeros \o Tail(s)
        ELSE zeros \o s

\* lst2star.py lines 109-112
read_lst_tag(image_id, micro_path) ==
    LET new_image_id == image_id + 1
    IN  zfill(Str(new_image_id), 6) \o <<"@">> \o <<micro_path>>

\* lstFiltered2star.py lines 86-90
read_lst2_tag(image_id, micro_path) ==
    LET new_image_id == image_id + 1
    IN  zfill(Str(new_image_id), 6) \o <<"@">> \o <<micro_path>>

----------------------------------------------------------------------------
(* The LST files.  A data row of the Jalign output (lstA) is its first     *)
(* token, the file named by its second token and the value of its score    *)
(* field; a data row of the Jalign input (lstB) is its first token and its *)
(* path.  Blank and '#' lines are dropped by every reader before anything  *)
(* else and are not part of the rows.                                      *)

\* a first token that int() rejects
NotAnInt == 7000000
\* a row without a score=... token; a score=... token that float() rejects
NoField == 8000000
NotANumber == 9000000

RowA(ix, file, score) == [ix |-> ix, file |-> file, score |-> score]
RowB(ix, path) == [ix |-> ix, path |-> path]

\* the value of the token "<param>=..." of a row, whose only field is score
FieldOf(row, param) == IF param = "score" THEN row.score ELSE NoField

Abs(v) == IF v < 0 THEN -v ELSE v

\* a mutant of MergedLine: the first token counts the rows of lines2 from 1
MergedLine_OneBased(line1, lines2) ==
    IF line1.ix = NotAnInt THEN None
    ELSE IF lines2 = None THEN None
    ELSE IF line1.ix < 1 \/ line1.ix > Len(TheValue(lines2)) THEN None
    ELSE Some([ix |-> TheValue(lines2)[line1.ix].ix,
               path |-> TheValue(lines2)[line1.ix].path,
               score |-> line1.score])

\* merge_lst lines 48-81: the line written for line1, or None when it is skipped
MergedLine(line1, lines2) ==
    IF line1.ix = NotAnInt THEN None
    ELSE IF lines2 = None THEN None
    ELSE IF line1.ix < 0 \/ line1.ix >= Len(TheValue(lines2)) THEN None
    ELSE Some([ix |-> TheValue(lines2)[line1.ix + 1].ix,
               path |-> TheValue(lines2)[line1.ix + 1].path,
               score |-> line1.score])

\* merge_lst lines 47-81: the lines of tmp.lst
RECURSIVE MergedLines(_, _)
MergedLines(lines1, lines2) ==
    IF lines1 = <<>> THEN <<>>
    ELSE LET m == MergedLine(Head(lines1), lines2)
             rest == MergedLines(Tail(lines1), lines2)
         IN  IF m = None THEN rest ELSE <<TheValue(m)>> \o rest

\* a mutant of ReadLstKeeps: the comparisons are not strict
ReadLstKeeps_NotStrict(row, param, greaterthan, lessthan, use_abs) ==
    IF row.ix = NotAnInt THEN FALSE
    ELSE IF param = None /\ greaterthan = None /\ lessthan = None THEN TRUE
    ELSE LET raw == IF param = None THEN NoField ELSE FieldOf(row, TheValue(param))
             val == IF use_abs THEN Abs(raw) ELSE raw
         IN  IF raw \in {NoField, NotANumber} THEN FALSE
             ELSE /\ (greaterthan = None \/ val >= TheValue(greaterthan))
                  /\ (lessthan = None \/ val <= TheValue(lessthan))

\* read_lst lines 103-139: is the line kept
ReadLstKeeps(row, param, greaterthan, lessthan, use_abs) ==
    IF row.ix = NotAnInt THEN FALSE
    ELSE IF param = None /\ greaterthan = None /\ lessthan = None THEN TRUE
    ELSE LET raw == IF param = None THEN NoField ELSE FieldOf(row, TheValue(param))
             val == IF use_abs THEN Abs(raw) ELSE raw
         IN  IF raw \in {NoField, NotANumber} THEN FALSE
             ELSE /\ (greaterthan = None \/ val > TheValue(greaterthan))
                  /\ (lessthan = None \/ val < TheValue(lessthan))

\* a mutant of read_lst: the first data line is taken for a header
read_lst_SkipFirst(rows, param, greaterthan, lessthan, use_abs) ==
    IF rows = <<>> THEN <<>>
    ELSE LET kept == SelectSeq(Tail(rows),
                               LAMBDA row : ReadLstKeeps(row, param, greaterthan,
                                                         lessthan, use_abs))
         IN  [i \in 1..Len(kept) |-> read_lst_tag(kept[i].ix, kept[i].path)]

\* read_lst lines 87-142: the tags of the kept lines, in file order
RECURSIVE read_lst(_, _, _, _, _)
read_lst(rows, param, greaterthan, lessthan, use_abs) ==
    IF rows = <<>> THEN <<>>
    ELSE LET row == Head(rows)
             rest == read_lst(Tail(rows), param, greaterthan, lessthan, use_abs)
         IN  IF ReadLstKeeps(row, param, greaterthan, lessthan, use_abs)
             THEN <<read_lst_tag(row.ix, row.path)>> \o rest
             ELSE rest

\* read_lst1 lines 50-68, one line: "exit" (line 63), "keep" or "drop"
ReadLst1Line(row, param, threshold, mode, use_abs) ==
    IF row.ix = NotAnInt THEN "drop"
    ELSE LET raw == FieldOf(row, param)
             val == IF use_abs THEN Abs(raw) ELSE raw
         IN  IF raw = NotANumber THEN "exit"
             ELSE IF raw = NoField THEN "drop"
             ELSE IF (mode = "gt" /\ val > threshold) \/ (mode = "lt" /\ val < threshold)
                 THEN "keep"
             ELSE "drop"

\* read_lst1 lines 42-69: the set of first-column integers of the kept lines
read_lst1(rows, param, threshold, mode, use_abs) ==
    LET verdict(k) == ReadLst1Line(rows[k], param, threshold, mode, use_abs)
    IN  IF \E k \in 1..Len(rows) :
              verdict(k) = "exit" /\ \A j \in 1..(k - 1) : verdict(j) # "exit"
        THEN [exit |-> TRUE, keep |-> {}]
        ELSE [exit |-> FALSE,
              keep |-> {rows[k].ix : k \in {j \in 1..Len(rows) : verdict(j) = "keep"}}]

\* read_lst2 lines 72-94: mapping[row_id + 1] is Python's mapping[row_id]
RECURSIVE read_lst2(_)
read_lst2(rows) ==
    IF rows = <<>> THEN <<>>
    ELSE LET row == rows[Len(rows)]
             mapping_before == read_lst2(SubSeq(rows, 1, Len(rows) - 1))
         IN  IF row.ix = NotAnInt THEN mapping_before
             ELSE Append(mapping_before, read_lst2_tag(row.ix, row.path))

\* lstFiltered2star.py line 149
JoinByIndex(map, idxs) == {map[row_id + 1] : row_id \in {i \in 0..(Len(map) - 1) : i \in idxs}}

\* a particle row of a STAR file: its rlnImageName and the rest of the row
StarRow(name, rest) == [rlnImageName |-> name, rest |-> rest]

\* filter_star (both scripts): the rows whose rlnImageName is in keep_images
RECURSIVE KeptRows(_, _)
KeptRows(rows, keep) ==
    IF rows = <<>> THEN <<>>
    ELSE IF Head(rows).rlnImageName \in keep
        THEN <<Head(rows)>> \o KeptRows(Tail(rows), keep)
    ELSE KeptRows(Tail(rows), keep)

\* the file filter_star writes: the other blocks as they are, and the particles
\* block unless no row is kept
WrittenStar(rows, keep) ==
    [blocks |-> IF KeptRows(rows, keep) = <<>> THEN <<"optics">>
                ELSE <<"optics", "particles">>,
     particles |-> KeptRows(rows, keep)]

SeqToSet(q) == {q[i] : i \in 1..Len(q)}

----------------------------------------------------------------------------
(* The inputs of the two scripts in the model. *)

\* the first token of a row of lstA: 0 .. MaxRowsB, the last one past every lstB
\* of the model; its score is below or above the threshold of the run
Scores == {1, 3}
Thresholds == {2}
LstARows == {RowA(ix, "in.lst", sc) : ix \in 0..MaxRowsB, sc \in Scores}
LstBRows == {RowB(0, "a.mrcs"), RowB(41, "stack.mrcs"), RowB(999999, "a.mrcs")}

\* rlnImageName values of the input STAR file
StarNames == {<<"0", "0", "0", "0", "0", "1", "@", "a.mrcs">>,
              <<"0", "0", "0", "0", "4", "2", "@", "stack.mrcs">>}

\* lst2star: no filter, --column score --greaterthan t, or --greaterthan t alone
Lst2StarArgs ==
    {[column |-> None, greaterthan |-> None, lessthan |-> None, use_abs |-> FALSE]}
    \cup {[column |-> Some("score"), greaterthan |-> Some(t), lessthan |-> None,
           use_abs |-> FALSE] : t \in Thresholds}
    \cup {[column |-> None, greaterthan |-> Some(t), lessthan |-> None,
           use_abs |-> FALSE] : t \in Thresholds}

\* lstFiltered2star: --param score --threshold t --mode gt
LstFilteredArgs ==
    {[param |-> "score", threshold |-> t, mode |-> "gt", abs |-> FALSE] : t \in Thresholds}

LstInit ==
    /\ script \in {"lst2star", "lstFiltered2star"}
    /\ flt \in IF script = "lst2star" THEN Lst2StarArgs ELSE LstFilteredArgs
    /\ lstA \in AllSeqs(LstARows, MaxRowsA)
    /\ lstB \in {None} \cup {Some(q) : q \in AllSeqs(LstBRows, MaxRowsB)}
    /\ jpc = "start"
    /\ tmp_lst = None
    /\ kept_images = <<>>
    /\ keep_idxs = {}
    /\ mapping = <<>>
    /\ keep_images = {}
    /\ in_star = None
    /\ out_star = None
    /\ jstatus = "running"

\* the particle rows of the STAR file that filter_star reads
StarFiles ==
    {[i \in 1..Len(names) |-> StarRow(names[i], i)] : names \in AllSeqs(StarNames, MaxStarRows)}

----------------------------------------------------------------------------
(* lst2star.py: main. *)

\* sys.exit(message) ends the run with exit status 1
ExitLst(unchanged) ==
    /\ jpc' = "end"
    /\ jstatus' = "exit 1"
    /\ unchanged

\* lines 216-225 and merge_lst: every row of lstA names the one lst2 file, lstB
L2S_MergeLst ==
    /\ script = "lst2star"
    /\ jpc = "start"
    /\ IF flt.column = None /\ (flt.greaterthan # None \/ flt.lessthan # None)
       THEN ExitLst(UNCHANGED tmp_lst)
       ELSE IF lstA = <<>>
       THEN ExitLst(UNCHANGED tmp_lst)
       ELSE /\ tmp_lst' = Some(MergedLines(lstA, lstB))
            /\ jpc' = "read"
            /\ jstatus' = jstatus
    /\ UNCHANGED <<script, flt, lstA, lstB, kept_images, keep_idxs, mapping,
                   keep_images, in_star, out_star>>
    /\ UNCHANGED <<dhVars, fnVars, ogVars>>

\* lines 227-230
L2S_ReadLst ==
    /\ script = "lst2star"
    /\ jpc = "read"
    /\ kept_images' = read_lst(TheValue(tmp_lst), flt.column, flt.greaterthan,
                               flt.lessthan, flt.use_abs)
    /\ IF kept_images' = <<>>
       THEN jpc' = "end" /\ jstatus' = "exit 1"
       ELSE jpc' = "filter" /\ jstatus' = jstatus
    /\ UNCHANGED <<script, flt, lstA, lstB, tmp_lst, keep_idxs, mapping,
                   keep_images, in_star, out_star>>
    /\ UNCHANGED <<dhVars, fnVars, ogVars>>

\* lines 232-235 and filter_star: the output file is written, then kept_num is
\* looked at
L2S_FilterStar ==
    /\ script = "lst2star"
    /\ jpc = "filter"
    /\ \E rows \in StarFiles :
          /\ in_star' = Some(rows)
          /\ out_star' = Some(WrittenStar(rows, SeqToSet(kept_images)))
          /\ jstatus' = IF Len(KeptRows(rows, SeqToSet(kept_images))) = 0
                        THEN "exit 1" ELSE "ok"
    /\ jpc' = "end"
    /\ UNCHANGED <<script, flt, lstA, lstB, tmp_lst, kept_images, keep_idxs,
                   mapping, keep_images>>
    /\ UNCHANGED <<dhVars, fnVars, ogVars>>

----------------------------------------------------------------------------
(* lstFiltered2star.py: main. *)

\* lines 142-145
LF_ReadLst1 ==
    /\ script = "lstFiltered2star"
    /\ jpc = "start"
    /\ LET r == read_lst1(lstA, flt.param, flt.threshold, flt.mode, flt.abs)
       IN  /\ keep_idxs' = r.keep
           /\ IF r.exit \/ r.keep = {}
              THEN jpc' = "end" /\ jstatus' = "exit 1"
              ELSE jpc' = "read2" /\ jstatus' = jstatus
    /\ UNCHANGED <<script, flt, lstA, lstB, tmp_lst, kept_images, mapping,
                   keep_images, in_star, out_star>>
    /\ UNCHANGED <<dhVars, fnVars, ogVars>>

\* lines 147-152: open() of a missing --lst2 raises
LF_ReadLst2 ==
    /\ script = "lstFiltered2star"
    /\ jpc = "read2"
    /\ IF lstB = None
       THEN /\ jpc' = "end"
            /\ jstatus' = "FileNotFoundError"
            /\ UNCHANGED <<mapping, keep_images>>
       ELSE /\ mapping' = read_lst2(TheValue(lstB))
            /\ keep_images' = JoinByIndex(mapping', keep_idxs)
            /\ IF keep_images' = {}
               THEN jpc' = "end" /\ jstatus' = "exit 1"
               ELSE jpc' = "filter" /\ jstatus' = jstatus
    /\ UNCHANGED <<script, flt, lstA, lstB, tmp_lst, kept_images, keep_idxs,
                   in_star, out_star>>
    /\ UNCHANGED <<dhVars, fnVars, ogVars>>

\* lines 154-155 and filter_star
LF_FilterStar ==
    /\ script = "lstFiltered2star"
    /\ jpc = "filter"
    /\ \E rows \in StarFiles :
          /\ in_star' = Some(rows)
          /\ out_star' = Some(WrittenStar(rows, keep_images))
    /\ jpc' = "end"
    /\ jstatus' = "ok"
    /\ UNCHANGED <<script, flt, lstA, lstB, tmp_lst, kept_images, keep_idxs,
                   mapping, keep_images>>
    /\ UNCHANGED <<dhVars, fnVars, ogVars>>

LstNext ==
    \/ L2S_MergeLst \/ L2S_ReadLst \/ L2S_FilterStar
    \/ LF_ReadLst1 \/ LF_ReadLst2 \/ LF_FilterStar

----------------------------------------------------------------------------
(* filter_star on one block of the STAR file.  A block is, as StarFile3    *)
(* gives it, the names of its columns in file order and one list of values *)
(* per column.                                                             *)

\* most rows of a block
MaxBlockRows == 3

Block(keys, cols) == [keys |-> keys, cols |-> cols]
HasColumn(block, key) == \E i \in 1..Len(block.keys) : block.keys[i] = key

\* np.nonzero(np.isin(image_names, keep_list))[0]: the rows, counted from 1,
\* whose name is one of keep_list, ascending
RECURSIVE kept_indices(_, _)
kept_indices(image_names, keep_list) ==
    IF image_names = <<>> THEN <<>>
    ELSE LET n == Len(image_names)
             before == kept_indices(SubSeq(image_names, 1, n - 1), keep_list)
         IN  IF image_names[n] \in keep_list THEN Append(before, n) ELSE before

\* a mutant of TakeIndices: the first len(idxs) values of the column
TakeIndices_FirstRows(col, idxs) == [k \in 1..Len(idxs) |-> col[k]]

\* np.array(v)[kept_indices].tolist()
TakeIndices(col, idxs) == [k \in 1..Len(idxs) |-> col[idxs[k]]]

\* lst2star.py filter_star lines 153-170, one block: its entry in
\* output_blocks, None when the block is skipped
filter_star_block(block, keep_list) ==
    IF HasColumn(block, "rlnImageName")
    THEN LET idxs == kept_indices(block.cols["rlnImageName"], keep_list)
         IN  IF Len(idxs) = 0 THEN None
             ELSE Some(Block(block.keys,
                             [k \in DOMAIN block.cols |-> TakeIndices(block.cols[k], idxs)]))
    ELSE Some(block)

\* lstFiltered2star.py filter_star lines 103-120, one block; every column of a
\* block is a list
filter_star_block_F(block, keep_list) ==
    IF HasColumn(block, "rlnImageName")
    THEN LET idxs == kept_indices(block.cols["rlnImageName"], keep_list)
         IN  IF Len(idxs) = 0 THEN None
             ELSE Some(Block(block.keys,
                             [k \in DOMAIN block.cols |-> TakeIndices(block.cols[k], idxs)]))
    ELSE Some(block)

\* the rows both scripts write for a block: zip(*(block[k] for k in keys))
NumRows(block) ==
    IF block.keys = <<>> THEN 0
    ELSE CHOOSE n \in 0..(MaxBlockRows + 1) :
            /\ \A i \in 1..Len(block.keys) : Len(block.cols[block.keys[i]]) >= n
            /\ \E i \in 1..Len(block.keys) : Len(block.cols[block.keys[i]]) = n
WrittenRows(block) ==
    [r \in 1..NumRows(block) |-> [i \in 1..Len(block.keys) |-> block.cols[block.keys[i]][r]]]

\* the image names of the blocks of the model
BlockNames == {read_lst_tag(i, "a.mrcs") : i \in 0..2}

\* the blocks of the model: a particles block with the two columns in either
\* order, whose rlnCoordinateX of a row is the number of the row, and a block
\* without rlnImageName
BlocksOfNames(names) ==
    LET xs == [r \in 1..Len(names) |-> r]
    IN  {Block(<<"rlnImageName", "rlnCoordinateX">>, [rlnImageName |-> names, rlnCoordinateX |-> xs]),
         Block(<<"rlnCoordinateX", "rlnImageName">>, [rlnImageName |-> names, rlnCoordinateX |-> xs]),
         Block(<<"rlnCoordinateX">>, [rlnCoordinateX |-> xs])}

\* a call filter_star, narrowed to one block of in_star
FilterStarInit ==
    /\ fn = "filter_star"
    /\ \E names \in AllSeqs(BlockNames, MaxBlockRows) :
       \E block \in BlocksOfNames(names) :
       \E keep \in SUBSET BlockNames :
       \E sc \in {"lst2star", "lstFiltered2star"} :
          fn_in = [script |-> sc, block |-> block, keep_images |-> keep]
    /\ fn_out = None
    /\ fn_done = FALSE

CallFilterStar ==
    /\ fn = "filter_star"
    /\ ~fn_done
    /\ fn_out' = IF fn_in.script = "lst2star"
                 THEN filter_star_block(fn_in.block, fn_in.keep_images)
                 ELSE filter_star_block_F(fn_in.block, fn_in.keep_images)
    /\ fn_done' = TRUE
    /\ UNCHANGED <<fn, fn_in>>
    /\ UNCHANGED <<dhVars, lstVars, ogVars>>


----------------------------------------------------------------------------
(* warp/delete_ogs.py and warp/split_matchingstar.py: the renumbering of   *)
(* optics groups.  A name is the sequence of its characters; a mapping is  *)
(* the function of the dict old_to_new.                                    *)

\* most rows of the rlnOpticsGroupName column handed to renumber_global_names
MaxNames == 4

IsDigit(c) == \E d \in 1..10 : DigitChars[d] = c

\* int() of a run of digits
RECURSIVE IntOfDigits(_)
IntOfDigits(ds) ==
    IF ds = <<>> THEN 0
    ELSE 10 * IntOfDigits(SubSeq(ds, 1, Len(ds) - 1))
         + (CHOOSE d \in 0..9 : DigitChars[d + 1] = ds[Len(ds)])

\* re.search(r'(\d+)', s): the first and the last position of the leftmost
\* longest run of digits, <<0, 0>> when s has no digit
SearchDigits(s) ==
    IF \A i \in 1..Len(s) : ~IsDigit(s[i]) THEN <<0, 0>>
    ELSE LET start == CHOOSE i \in 1..Len(s) :
                         IsDigit(s[i]) /\ \A j \in 1..(i - 1) : ~IsDigit(s[j])
             end == CHOOSE e \in start..Len(s) :
                       /\ \A j \in start..e : IsDigit(s[j])
                       /\ e = Len(s) \/ ~IsDigit(s[e + 1])
         IN  <<start, end>>

\* a mutant of extract_digits_int: the first digit alone
extract_digits_int_OneDigit(s) ==
    LET m == SearchDigits(s)
    IN  IF m = <<0, 0>> THEN None ELSE Some(IntOfDigits(<<s[m[1]]>>))

\* extract_digits_int (delete_ogs.py 34-36, split_matchingstar.py 48-51)
extract_digits_int(s) ==
    LET m == SearchDigits(s)
    IN  IF m = <<0, 0>> THEN None ELSE Some(IntOfDigits(SubSeq(s, m[1], m[2])))

\* str(new_num), new_num an int or None
StrOpt(new_num) == IF new_num = None THEN <<"N", "o", "n", "e">> ELSE Str(TheValue(new_num))

\* a mutant of replace_first_digit_group: the text after the run is dropped
replace_first_digit_group_DropTail(name, new_num) ==
    LET m == SearchDigits(name)
    IN  IF m = <<0, 0>> THEN name
        ELSE SubSeq(name, 1, m[1] - 1) \o StrOpt(new_num)

\* replace_first_digit_group (delete_ogs.py 39-44, split_matchingstar.py 54-60)
replace_first_digit_group(name, new_num) ==
    LET m == SearchDigits(name)
    IN  IF m = <<0, 0>> THEN name
        ELSE SubSeq(name, 1, m[1] - 1) \o StrOpt(new_num) \o SubSeq(name, m[2] + 1, Len(name))

\* the list seen after the loop over the names (delete_ogs.py 82-87,
\* split_matchingstar.py 111-118 and 146-152)
RECURSIVE SeenIds(_)
SeenIds(names) ==
    IF names = <<>> THEN <<>>
    ELSE LET seen == SeenIds(SubSeq(names, 1, Len(names) - 1))
             old == extract_digits_int(names[Len(names)])
         IN  IF old # None /\ TheValue(old) \notin SeqToSet(seen)
             THEN Append(seen, TheValue(old))
             ELSE seen

\* a mutant of Enumerate: the numbers start at 0
Enumerate_FromZero(seen) ==
    [old \in SeqToSet(seen) |-> (CHOOSE i \in 1..Len(seen) : seen[i] = old) - 1]

\* {old: i for i, old in enumerate(seen, start=1)}
Enumerate(seen) ==
    [old \in SeqToSet(seen) |-> CHOOSE i \in 1..Len(seen) : seen[i] = old]

\* dict.get(key): None when key is None or not in the dict
DictGet(d, key) ==
    IF key # None /\ TheValue(key) \in DOMAIN d THEN Some(d[TheValue(key)]) ELSE None

\* delete_ogs.py renumber_global_names, on the column rlnOpticsGroupName:
\* the new column and the mapping
renumber_global_names(names) ==
    LET old_to_new == Enumerate(SeenIds(names))
    IN  [names |-> [i \in 1..Len(names) |->
                       replace_first_digit_group(
                           names[i], DictGet(old_to_new, extract_digits_int(names[i])))],
         mapping |-> old_to_new]

\* split_matchingstar.py lines 125-132, _map_name
map_name(old_to_new, nm) ==
    LET old == extract_digits_int(nm)
        new == DictGet(old_to_new, old)
    IN  IF old = None THEN nm
        ELSE IF new = None THEN nm
        ELSE replace_first_digit_group(nm, new)

\* split_matchingstar.py renumber_global_names, lines 105-135
renumber_global_names_S(names) ==
    LET old_to_new == Enumerate(SeenIds(names))
    IN  [names |-> [i \in 1..Len(names) |-> map_name(old_to_new, names[i])],
         mapping |-> old_to_new]

\* the names of the model: og_7, og_3, og_9, a name without a digit, and a name
\* whose first run of digits is 07 and that has a second run
OGName(n) == <<"o", "g", "_">> \o Str(n)
OGNames == {OGName(7), OGName(3), OGName(9), <<"o", "g">>, <<"g", "0", "7", "x", "3">>}

RenumberInit ==
    /\ fn = "renumber_global_names"
    /\ \E names \in AllSeqs(OGNames, MaxNames) :
       \E tool \in {"delete_ogs", "split_matchingstar"} :
          fn_in = [tool |-> tool, names |-> names]
    /\ fn_out = None
    /\ fn_done = FALSE

CallRenumber ==
    /\ fn = "renumber_global_names"
    /\ ~fn_done
    /\ fn_out' = IF fn_in.tool = "delete_ogs"
                 THEN renumber_global_names(fn_in.names)
                 ELSE renumber_global_names_S(fn_in.names)
    /\ fn_done' = TRUE
    /\ UNCHANGED <<fn, fn_in>>
    /\ UNCHANGED <<dhVars, lstVars, ogVars>>

----------------------------------------------------------------------------
(* warp/delete_ogs.py and warp/split_matchingstar.py: the two STAR files.  *)
(* A file is the blocks starfile.read gives: data_global, data_optics and  *)
(* data_particles as lists of rows (None when the file has no such block)  *)
(* and the names of its per-tomogram blocks.                               *)

\* most rows of data_global and of data_optics
MaxGlobalRows == 3
MaxOpticsRows == 3

GlobalRow(tomo, ogname) == [rlnTomoName |-> tomo, rlnOpticsGroupName |-> ogname]
OpticsRow(group, ogname) == [rlnOpticsGroup |-> group, rlnOpticsGroupName |-> ogname]
ParticleRow(group) == [rlnOpticsGroup |-> group]

StarDoc(global, optics, particles, blocks) ==
    [global |-> global, optics |-> optics, particles |-> particles, blocks |-> blocks]

Column(rows, key) == [i \in 1..Len(rows) |-> rows[i][key]]

\* what a function of the two scripts returns, or the exception it raises
OGRaised(e) == [err |-> e, star |-> None, mapping |-> None]
OGReturned(star, map) == [err |-> "none", star |-> Some(star), mapping |-> Some(map)]

\* a mutant of DictGetOr: the value as it is
DictGetOr_Unmapped(d, v) == v

\* mapping.get(v, v)
DictGetOr(d, v) == IF v \in DOMAIN d THEN d[v] ELSE v

\* the rows of a frame whose rlnOpticsGroup is in a set
RowsOfGroups(df, groups) == SelectSeq(df, LAMBDA row : row.rlnOpticsGroup \in groups)

\* a mutant of RemovedGlobal: a name without digits is removed too
RemovedGlobal_NoDigits(row, delete_ogs) ==
    \/ extract_digits_int(row.rlnOpticsGroupName) = None
    \/ TheValue(extract_digits_int(row.rlnOpticsGroupName)) \in delete_ogs

\* delete_ogs_from_star lines 109-117: is the row of data_global removed
RemovedGlobal(row, delete_ogs) ==
    /\ extract_digits_int(row.rlnOpticsGroupName) # None
    /\ TheValue(extract_digits_int(row.rlnOpticsGroupName)) \in delete_ogs

\* lines 128-129: data_global with the renumbered names, and the mapping
RenumberedClean(df_global_clean, ren, star, to_remove_tomos) ==
    OGReturned(StarDoc(Some([i \in 1..Len(df_global_clean) |->
                               GlobalRow(df_global_clean[i].rlnTomoName, ren.names[i])]),
                       star.optics, star.particles, star.blocks \ to_remove_tomos),
               ren.mapping)

\* lines 118-129, once the rows to keep are known
CleanTomograms(df_global_clean, star, to_remove_tomos) ==
    RenumberedClean(df_global_clean,
                    renumber_global_names(Column(df_global_clean, "rlnOpticsGroupName")),
                    star, to_remove_tomos)

\* delete_ogs_from_star lines 106-129: the file has data_global
delete_ogs_tomograms(star, delete_ogs) ==
    CleanTomograms(
        SelectSeq(TheValue(star.global), LAMBDA row : ~RemovedGlobal(row, delete_ogs)),
        star,
        {TheValue(star.global)[i].rlnTomoName :
            i \in {j \in 1..Len(TheValue(star.global)) :
                      RemovedGlobal(TheValue(star.global)[j], delete_ogs)}})

\* lines 150-157: the renumbered optics and particles, and the mapping
RenumberedParticles(df_optics_clean, df_particles_clean, ren) ==
    OGReturned(
        StarDoc(None,
                Some([i \in 1..Len(df_optics_clean) |->
                         OpticsRow(DictGetOr(ren.mapping, df_optics_clean[i].rlnOpticsGroup),
                                   ren.names[i])]),
                Some([i \in 1..Len(df_particles_clean) |->
                         ParticleRow(DictGetOr(ren.mapping,
                                               df_particles_clean[i].rlnOpticsGroup))]),
                {}),
        ren.mapping)

\* lines 146-157, once the optics rows to keep are known
CleanParticles(df_optics_clean, df_particles) ==
    RenumberedParticles(
        df_optics_clean,
        RowsOfGroups(df_particles, SeqToSet(Column(df_optics_clean, "rlnOpticsGroup"))),
        renumber_global_names(Column(df_optics_clean, "rlnOpticsGroupName")))

\* delete_ogs_from_star lines 130-157: the file has no data_global;
\* star["optics"] and star["particles"] raise KeyError when the block is missing
delete_ogs_particles(star, delete_ogs) ==
    IF star.optics = None \/ star.particles = None THEN OGRaised("KeyError")
    ELSE CleanParticles(
             SelectSeq(TheValue(star.optics), LAMBDA row : row.rlnOpticsGroup \notin delete_ogs),
             TheValue(star.particles))

\* delete_ogs_from_star lines 106-157, after the backup is written
delete_ogs_from_star(star, delete_ogs) ==
    IF star.global # None THEN delete_ogs_tomograms(star, delete_ogs)
    ELSE delete_ogs_particles(star, delete_ogs)

\* min() and max() of a non-empty set of integers
MinOf(S) == CHOOSE x \in S : \A y \in S : x <= y
MaxOf(S) == CHOOSE x \in S : \A y \in S : x >= y

\* get_og_range, split_matchingstar.py lines 63-69
get_og_range(df_g) ==
    LET nums == {TheValue(extract_digits_int(df_g[i].rlnOpticsGroupName)) :
                    i \in {j \in 1..Len(df_g) :
                              extract_digits_int(df_g[j].rlnOpticsGroupName) # None}}
    IN  IF nums = {} THEN <<0, 0>> ELSE <<MinOf(nums), MaxOf(nums)>>

\* fix_dose_split_tomograms lines 211-213: the tomogram names of the two halves
HalfNames(df_global) ==
    LET tomonames == Column(df_global, "rlnTomoName")
        half == (Len(tomonames) + 1) \div 2
    IN  <<SeqToSet(SubSeq(tomonames, 1, half)),
          SeqToSet(SubSeq(tomonames, half + 1, Len(tomonames)))>>

\* lines 217-218: df_global[df_global["rlnTomoName"].isin(names)]
RowsOfTomos(df_global, names) == SelectSeq(df_global, LAMBDA row : row.rlnTomoName \in names)

\* lines 230-253 for one half: its blocks with data_global renumbered, the
\* range that names its file, and its mapping
SplitHalf(df_g, blocks) ==
    LET ren == renumber_global_names_S(Column(df_g, "rlnOpticsGroupName"))
    IN  [star |-> StarDoc(Some([i \in 1..Len(df_g) |->
                                  GlobalRow(df_g[i].rlnTomoName, ren.names[i])]),
                          None, None, blocks),
         range |-> get_og_range(df_g),
         mapping |-> ren.mapping]

\* fix_dose_split_tomograms lines 210-262, for an input file whose name has no
\* _OG<start>-<end> suffix: the two halves
split_tomograms(star) ==
    LET h == HalfNames(TheValue(star.global))
    IN  <<SplitHalf(RowsOfTomos(TheValue(star.global), h[1]), star.blocks \cap h[1]),
          SplitHalf(RowsOfTomos(TheValue(star.global), h[2]), (star.blocks \cap h[2]) \ h[1])>>

\* renumber_optics_and_particles lines 156-166, with the mapping of line 154
RenumberWith(map, df_optics, df_particles) ==
    [optics |-> [i \in 1..Len(df_optics) |->
                    OpticsRow(DictGetOr(map, df_optics[i].rlnOpticsGroup),
                              replace_first_digit_group(
                                  df_optics[i].rlnOpticsGroupName,
                                  DictGet(map, extract_digits_int(df_optics[i].rlnOpticsGroupName))))],
     particles |-> [i \in 1..Len(df_particles) |->
                       ParticleRow(DictGetOr(map, df_particles[i].rlnOpticsGroup))],
     mapping |-> map]

\* renumber_optics_and_particles, split_matchingstar.py lines 138-166
renumber_optics_and_particles(df_optics, df_particles) ==
    RenumberWith(Enumerate(SeenIds(Column(df_optics, "rlnOpticsGroupName"))),
                 df_optics, df_particles)

\* lines 286-294: the groups of data_optics that are keys of map1, and those
\* of the others that are keys of map2
SetsOfHalves(df_optics, map1, map2) ==
    <<{g \in SeqToSet(Column(df_optics, "rlnOpticsGroup")) : g \in DOMAIN map1},
      {g \in SeqToSet(Column(df_optics, "rlnOpticsGroup")) :
          g \notin DOMAIN map1 /\ g \in DOMAIN map2}>>

\* lines 296-327 for one half: its file, the range that names it, its mapping
ParticlesHalf(df_optics, df_particles, groups) ==
    [star |-> RenumberWith(Enumerate(SeenIds(Column(RowsOfGroups(df_optics, groups),
                                                    "rlnOpticsGroupName"))),
                           RowsOfGroups(df_optics, groups),
                           RowsOfGroups(df_particles, groups)),
     range |-> <<MinOf(groups), MaxOf(groups)>>]

\* lines 303-327, once the two sets are known: min() raises ValueError for a
\* half without optics group
SplitBySets(df_optics, df_particles, sets) ==
    IF sets[1] = {} \/ sets[2] = {}
    THEN [err |-> "ValueError"]
    ELSE [err |-> "none",
          half1 |-> ParticlesHalf(df_optics, df_particles, sets[1]),
          half2 |-> ParticlesHalf(df_optics, df_particles, sets[2])]

\* split_particles_generate_sets lines 281-327: star[...] raises KeyError for a
\* missing block
split_particles(star, map1, map2) ==
    IF star.optics = None \/ star.particles = None
    THEN [err |-> "KeyError"]
    ELSE SplitBySets(TheValue(star.optics), TheValue(star.particles),
                     SetsOfHalves(TheValue(star.optics), map1, map2))

----------------------------------------------------------------------------
(* warp/delete_ogs.py and warp/split_matchingstar.py: main.  Both files of *)
(* the command line exist (main leaves with status 2 otherwise, before it  *)
(* reads anything).                                                        *)

\* the optics groups of the input files and the values of --og
OGIds == {1, 2, 3}
DeleteSets == {{}, {1}, {3}}

TomoName(i) == <<"t">> \o Str(i)

\* matching_tomograms.star: data_global with one row per tomogram, in any order
\* of the optics groups, and one block per tomogram
TomoFiles ==
    {StarDoc(Some([i \in 1..Len(ogs) |-> GlobalRow(TomoName(i), OGName(ogs[i]))]),
             None, None, {TomoName(i) : i \in 1..Len(ogs)}) :
        ogs \in AllSeqs(OGIds, MaxGlobalRows)}

\* rows of data_optics: those whose rlnOpticsGroup is the number in the name,
\* and one whose is not
OpticsRows == {OpticsRow(g, OGName(g)) : g \in OGIds} \cup {OpticsRow(2, OGName(1))}
ParticleLists == {<<ParticleRow(1)>>, <<ParticleRow(2), ParticleRow(1)>>}

\* matching.star: data_optics and data_particles, either of which can be missing
MatchFiles ==
    {StarDoc(None, optics, particles, {}) :
        optics \in {None} \cup {Some(q) : q \in AllSeqs(OpticsRows, MaxOpticsRows)},
        particles \in {None} \cup {Some(q) : q \in ParticleLists}}

\* the files a run can write, none of them written
NoFiles ==
    [tomo_full |-> None, tomo |-> None, match_full |-> None, match |-> None,
     tomo_original |-> None, tomo1 |-> None, tomo2 |-> None,
     match1 |-> None, match2 |-> None, optim1 |-> None, optim2 |-> None]

OGInit ==
    /\ og_tool \in {"delete_ogs", "split_matchingstar"}
    /\ og_args \in IF og_tool = "delete_ogs"
                   THEN {[og |-> d] : d \in DeleteSets}
                   ELSE {[dose |-> None], [dose |-> Some("changed")]}
    /\ og_tomo \in TomoFiles
    /\ og_match \in MatchFiles
    /\ og_pc = "start"
    /\ og_maps = None
    /\ og_files = NoFiles
    /\ og_status = "running"

\* delete_ogs.py main lines 181-185: nothing is done without --og; else the
\* first call of delete_ogs_from_star writes the backup and the cleaned file
DeleteTomograms ==
    /\ og_tool = "delete_ogs"
    /\ og_pc = "start"
    /\ IF og_args.og = {}
       THEN /\ og_pc' = "end"
            /\ og_status' = "ok"
            /\ UNCHANGED og_files
       ELSE LET r == delete_ogs_from_star(og_tomo, og_args.og)
            IN  /\ og_files' = [og_files EXCEPT !.tomo_full = Some(og_tomo), !.tomo = r.star]
                /\ og_pc' = "matching"
                /\ og_status' = og_status
    /\ UNCHANGED <<og_tool, og_args, og_tomo, og_match, og_maps>>
    /\ UNCHANGED <<dhVars, lstVars, fnVars>>

\* delete_ogs.py main lines 186-187: the second call writes the backup, then
\* raises or writes the cleaned file
DeleteMatching ==
    /\ og_tool = "delete_ogs"
    /\ og_pc = "matching"
    /\ LET r == delete_ogs_from_star(og_match, og_args.og)
       IN  IF r.err # "none"
           THEN /\ og_files' = [og_files EXCEPT !.match_full = Some(og_match)]
                /\ og_status' = r.err
           ELSE /\ og_files' = [og_files EXCEPT !.match_full = Some(og_match), !.match = r.star]
                /\ og_status' = "ok"
    /\ og_pc' = "end"
    /\ UNCHANGED <<og_tool, og_args, og_tomo, og_match, og_maps>>
    /\ UNCHANGED <<dhVars, lstVars, fnVars>>

\* split_matchingstar.py main line 363, fix_dose_split_tomograms: with -d and a
\* row to fix, the input is saved as _original and rewritten; the two halves
\* are written, the second over the first when their ranges name the same file
SplitTomograms ==
    /\ og_tool = "split_matchingstar"
    /\ og_pc = "start"
    /\ og_maps' = Some(split_tomograms(og_tomo))
    /\ LET half1 == TheValue(og_maps')[1]
           half2 == TheValue(og_maps')[2]
           fixed == IF og_args.dose = None THEN og_files
                    ELSE [og_files EXCEPT !.tomo_original = Some(og_tomo), !.tomo = Some(og_tomo)]
       IN  og_files' = [fixed EXCEPT
                           !.tomo1 = IF half1.range = half2.range THEN Some(half2) ELSE Some(half1),
                           !.tomo2 = Some(half2)]
    /\ og_pc' = "particles"
    /\ UNCHANGED <<og_tool, og_args, og_tomo, og_match, og_status>>
    /\ UNCHANGED <<dhVars, lstVars, fnVars>>

\* split_matchingstar.py main lines 364-365, split_particles_generate_sets
SplitParticles ==
    /\ og_tool = "split_matchingstar"
    /\ og_pc = "particles"
    /\ LET r == split_particles(og_match, TheValue(og_maps)[1].mapping, TheValue(og_maps)[2].mapping)
       IN  IF r.err # "none"
           THEN /\ og_status' = r.err
                /\ UNCHANGED og_files
           ELSE /\ og_files' = [og_files EXCEPT
                                   !.match1 = Some(r.half1),
                                   !.match2 = Some(r.half2),
                                   !.optim1 = Some(r.half1.range),
                                   !.optim2 = Some(r.half2.range)]
                /\ og_status' = "ok"
    /\ og_pc' = "end"
    /\ UNCHANGED <<og_tool, og_args, og_tomo, og_match, og_maps>>
    /\ UNCHANGED <<dhVars, lstVars, fnVars>>

OGNext == DeleteTomograms \/ DeleteMatching \/ SplitTomograms \/ SplitParticles

----------------------------------------------------------------------------
(* The LST readers as functions of the data lines of one file, malformed   *)
(* lines included: read_lst (lst2star), read_lst1 and read_lst2            *)
(* (lstFiltered2star) and parse_lst_lines (divide_histogram).              *)

\* most data lines of the file
MaxLines == 2

\* a data line of at least two tokens: its first token, its second token and
\* the value of its score=... token
LstLine(ix, path, score) == [ix |-> ix, path |-> path, score |-> score]

\* the lines of the model: the first token is 0, 1 or no integer; the score is
\* below, at or (in absolute value) above the threshold, missing or no number
LineIxs == {0, 1, NotAnInt}
LineScores == {1, 2, -3, NoField, NotANumber}
LstLines == {LstLine(ix, "a.mrcs", sc) : ix \in LineIxs, sc \in LineScores}

\* read_lst(path, param, greaterthan, lessthan, use_abs) as main calls it: no
\* bound without --column (lst2star.py lines 216-217, 227)
ReadLstArgs ==
    {[param |-> None, greaterthan |-> None, lessthan |-> None, use_abs |-> a] :
        a \in BOOLEAN}
    \cup {[param |-> Some("score"), greaterthan |-> g, lessthan |-> l, use_abs |-> a] :
            g \in {None, Some(2)}, l \in {None, Some(2)}, a \in BOOLEAN}

\* read_lst1(path, param, threshold, mode, use_abs)
ReadLst1Args ==
    {[param |-> "score", threshold |-> 2, mode |-> m, use_abs |-> a] :
        m \in {"gt", "lt"}, a \in BOOLEAN}

\* parse_lst_lines lines 62-71, one line: the entry appended for it, if any.
\* The pattern is searched in the whole line; the first token is not looked at.
ParsedEntry(line, column_name) ==
    IF FieldOf(line, column_name) \in {NoField, NotANumber} THEN None
    ELSE Some([line |-> line, val |-> FieldOf(line, column_name)])

\* parse_lst_lines lines 47-72: the entries, in file order
RECURSIVE parse_lst_lines(_, _)
parse_lst_lines(lines, column_name) ==
    IF lines = <<>> THEN <<>>
    ELSE IF ParsedEntry(Head(lines), column_name) = None
        THEN parse_lst_lines(Tail(lines), column_name)
    ELSE <<TheValue(ParsedEntry(Head(lines), column_name))>>
             \o parse_lst_lines(Tail(lines), column_name)

LstReaders == {"read_lst", "read_lst1", "read_lst2", "parse_lst_lines"}

ReadersInit ==
    /\ fn \in LstReaders
    /\ \E lines \in AllSeqs(LstLines, MaxLines) :
       \E a \in (CASE fn = "read_lst" -> ReadLstArgs
                   [] fn = "read_lst1" -> ReadLst1Args
                   [] fn = "read_lst2" -> {[param |-> None]}
                   [] OTHER -> {[column_name |-> "score"]}) :
          fn_in = [lines |-> lines, args |-> a]
    /\ fn_out = None
    /\ fn_done = FALSE

\* one call of read_lst: it returns the list kept
CallReadLst ==
    /\ fn = "read_lst"
    /\ ~fn_done
    /\ fn_out' = [exit |-> FALSE,
                  kept |-> read_lst(fn_in.lines, fn_in.args.param, fn_in.args.greaterthan,
                                    fn_in.args.lessthan, fn_in.args.use_abs)]
    /\ fn_done' = TRUE
    /\ UNCHANGED <<fn, fn_in>>
    /\ UNCHANGED <<dhVars, lstVars, ogVars>>

\* one call of read_lst1: it returns the set keep or ends the run (line 63)
CallReadLst1 ==
    /\ fn = "read_lst1"
    /\ ~fn_done
    /\ fn_out' = read_lst1(fn_in.lines, fn_in.args.param, fn_in.args.threshold,
                           fn_in.args.mode, fn_in.args.use_abs)
    /\ fn_done' = TRUE
    /\ UNCHANGED <<fn, fn_in>>
    /\ UNCHANGED <<dhVars, lstVars, ogVars>>

\* one call of read_lst2: it returns the mapping
CallReadLst2 ==
    /\ fn = "read_lst2"
    /\ ~fn_done
    /\ fn_out' = [exit |-> FALSE, mapping |-> read_lst2(fn_in.lines)]
    /\ fn_done' = TRUE
    /\ UNCHANGED <<fn, fn_in>>
    /\ UNCHANGED <<dhVars, lstVars, ogVars>>

\* one call of parse_lst_lines: it returns the entries
CallParseLstLines ==
    /\ fn = "parse_lst_lines"
    /\ ~fn_done
    /\ fn_out' = [exit |-> FALSE,
                  entries |-> parse_lst_lines(fn_in.lines, fn_in.args.column_name)]
    /\ fn_done' = TRUE
    /\ UNCHANGED <<fn, fn_in>>
    /\ UNCHANGED <<dhVars, lstVars, ogVars>>

----------------------------------------------------------------------------
(* divide_histogram.py: the STAR loop scanner.  A file is the list of its  *)
(* lines; a line is what the scanner can tell of it: a data_ line, a loop_ *)
(* line, a header line with its column name, a data row with its tokens, a *)
(* blank line or a '#' comment line.  Positions are Python's, from 0.      *)

\* most data rows of a loop
MaxDataRows == 2

BlockLine == [kind |-> "data_"]
LoopLine == [kind |-> "loop_"]
HeaderLine(name) == [kind |-> "header", name |-> name]
RowLine(tokens) == [kind |-> "row", tokens |-> tokens]
BlankLine == [kind |-> "blank"]
CommentLine == [kind |-> "comment"]

\* lines[i] for a Python position i
At(lines, i) == lines[i + 1]

\* line.strip().split(): the tokens of a line
Tokens(line) ==
    CASE line.kind = "data_" -> <<<<"d", "a", "t", "a", "_">>>>
      [] line.kind = "loop_" -> <<<<"l", "o", "o", "p", "_">>>>
      [] line.kind = "header" -> <<line.name>>
      [] line.kind = "row" -> line.tokens
      [] line.kind = "comment" -> <<<<"#">>>>
      [] OTHER -> <<>>

\* find_loops_in_star lines 97-101: header_end for the headers gathered from j
RECURSIVE HeaderEnd(_, _)
HeaderEnd(lines, j) ==
    IF j < Len(lines) /\ At(lines, j).kind = "header" THEN HeaderEnd(lines, j + 1) ELSE j

\* lines 105-110: data_end for the data scanned from k
RECURSIVE DataEnd(_, _)
DataEnd(lines, k) ==
    IF k < Len(lines) /\ At(lines, k).kind \notin {"header", "loop_", "data_"}
    THEN DataEnd(lines, k + 1)
    ELSE k

\* lines 93-117: the loop whose loop_ line is at i and whose headers end at header_end
LoopAt(lines, i, header_end) ==
    [loop_start |-> i,
     header_start |-> IF header_end > i + 1 THEN Some(i + 1) ELSE None,
     header_end |-> header_end,
     data_start |-> header_end,
     data_end |-> DataEnd(lines, header_end)]

\* find_loops_in_star lines 90-120: the loops found from position i on
RECURSIVE FindLoopsFrom(_, _)
RECURSIVE LoopThenRest(_, _)
LoopThenRest(lines, loop) == <<loop>> \o FindLoopsFrom(lines, loop.data_end)

FindLoopsFrom(lines, i) ==
    IF i >= Len(lines) THEN <<>>
    ELSE IF At(lines, i).kind = "loop_"
        THEN LoopThenRest(lines, LoopAt(lines, i, HeaderEnd(lines, i + 1)))
    ELSE FindLoopsFrom(lines, i + 1)

\* find_loops_in_star, lines 75-121
find_loops_in_star(lines) == FindLoopsFrom(lines, 0)

\* parse_star_loop_values line 129, on lines[header_start:header_end] (from the
\* start of the file when header_start is None): split()[0] of a blank line
\* raises IndexError
HeaderNames(header) ==
    IF \E i \in 1..Len(header) : Tokens(header[i]) = <<>>
    THEN [err |-> "IndexError", header_lines |-> <<>>]
    ELSE [err |-> "none", header_lines |-> [i \in 1..Len(header) |-> Tokens(header[i])[1]]]

\* line 130: the lines of the data range that are not blank
DataLines(data) == SelectSeq(data, LAMBDA ln : ln.kind # "blank")

\* parse_star_loop_values, lines 124-131
parse_star_loop_values(lines, loop) ==
    [err |-> HeaderNames(Slice(lines,
                               IF loop.header_start = None THEN 0
                               ELSE TheValue(loop.header_start),
                               loop.header_end)).err,
     header_lines |-> HeaderNames(Slice(lines,
                                        IF loop.header_start = None THEN 0
                                        ELSE TheValue(loop.header_start),
                                        loop.header_end)).header_lines,
     data |-> DataLines(Slice(lines, loop.data_start, loop.data_end))]

\* the structure the scanner finds: per loop its header columns and data rows,
\* or the exception raised on the way
RECURSIVE LoopValues(_, _, _)
LoopValues(lines, loops, li) ==
    IF li > Len(loops) THEN [err |-> "none", loops |-> <<>>]
    ELSE IF parse_star_loop_values(lines, loops[li]).err # "none"
        THEN [err |-> parse_star_loop_values(lines, loops[li]).err, loops |-> <<>>]
    ELSE IF LoopValues(lines, loops, li + 1).err # "none"
        THEN LoopValues(lines, loops, li + 1)
    ELSE [err |-> "none",
          loops |-> <<parse_star_loop_values(lines, loops[li])>>
                        \o LoopValues(lines, loops, li + 1).loops]

scan_star(lines) == LoopValues(lines, find_loops_in_star(lines), 1)

\* float(val_str) for the tokens of the model: the value, or None for ValueError
ParseFloat(val_str) ==
    IF \E n \in 0..9 : Str(n) = val_str
    THEN Some(CHOOSE n \in 0..9 : Str(n) = val_str)
    ELSE None

\* parse_star_lines lines 146-147
WithUnderscore(column_name) ==
    IF column_name[1] = "_" THEN column_name ELSE <<"_">> \o column_name

\* header_lines.index(column_name), from 0
IndexOf(header_lines, column_name) ==
    (CHOOSE i \in 1..Len(header_lines) :
        /\ header_lines[i] = column_name
        /\ \A j \in 1..(i - 1) : header_lines[j] # column_name) - 1

\* a mutant of RowEntries: the rows after a row with too few columns are not parsed
RECURSIVE RowEntries_StopAtShort(_, _)
RowEntries_StopAtShort(data, col_idx) ==
    IF data = <<>> THEN [entries |-> <<>>, short |-> 0]
    ELSE IF col_idx >= Len(Tokens(Head(data)))
        THEN [entries |-> <<>>, short |-> 1]
    ELSE [entries |-> <<Entry(Head(data), TheValue(ParseFloat(Tokens(Head(data))[col_idx + 1])))>>
                          \o RowEntries_StopAtShort(Tail(data), col_idx).entries,
          short |-> RowEntries_StopAtShort(Tail(data), col_idx).short]

\* lines 155-165: the entries of the data lines, and the number of lines
\* skipped for having too few columns
RECURSIVE RowEntries(_, _)
RowEntries(data, col_idx) ==
    IF data = <<>> THEN [entries |-> <<>>, short |-> 0]
    ELSE IF col_idx >= Len(Tokens(Head(data)))
        THEN [entries |-> RowEntries(Tail(data), col_idx).entries,
              short |-> RowEntries(Tail(data), col_idx).short + 1]
    ELSE IF ParseFloat(Tokens(Head(data))[col_idx + 1]) = None
        THEN RowEntries(Tail(data), col_idx)
    ELSE [entries |-> <<Entry(Head(data), TheValue(ParseFloat(Tokens(Head(data))[col_idx + 1])))>>
                          \o RowEntries(Tail(data), col_idx).entries,
          short |-> RowEntries(Tail(data), col_idx).short]

\* lines 152-166 for the loop that has the column
FoundIn(li, values, column_name) ==
    [err |-> "none", li |-> li,
     entries |-> RowEntries(values.data, IndexOf(values.header_lines, column_name)).entries,
     short |-> RowEntries(values.data, IndexOf(values.header_lines, column_name)).short]

StarRaised(e) == [err |-> e, li |-> -1, entries |-> <<>>, short |-> 0]

\* lines 150-167: the search from loop li (from 0) on
RECURSIVE SearchLoops(_, _, _, _)
RECURSIVE SearchLoop(_, _, _, _, _)
SearchLoop(lines, loops, li, column_name, values) ==
    IF values.err # "none" THEN StarRaised(values.err)
    ELSE IF column_name \in SeqToSet(values.header_lines)
        THEN FoundIn(li, values, column_name)
    ELSE SearchLoops(lines, loops, li + 1, column_name)

SearchLoops(lines, loops, li, column_name) ==
    IF li >= Len(loops) THEN StarRaised("KeyError")
    ELSE SearchLoop(lines, loops, li, column_name,
                    parse_star_loop_values(lines, At(loops, li)))

\* parse_star_lines, lines 134-167
parse_star_lines(lines, column_name) ==
    IF find_loops_in_star(lines) = <<>> THEN StarRaised("ValueError")
    ELSE SearchLoops(lines, find_loops_in_star(lines), 0, WithUnderscore(column_name))

\* the files of the model: one or two blocks, each a data_ line, a loop_ line,
\* one or two headers and up to MaxDataRows data rows of one or two tokens
StarHeaders == {<<<<"_", "a">>>>, <<<<"_", "a">>, <<"_", "b">>>>, <<<<"_", "b">>>>}
StarDataRows == {RowLine(<<Str(1)>>), RowLine(<<Str(2), Str(1)>>)}
StarBlocks ==
    {<<BlockLine, LoopLine>> \o [i \in 1..Len(hs) |-> HeaderLine(hs[i])] \o rows :
        hs \in StarHeaders, rows \in AllSeqs(StarDataRows, MaxDataRows)}
StarLineFiles == StarBlocks \cup {b1 \o b2 : b1 \in StarBlocks, b2 \in StarBlocks}

\* a file with one more line before position at
Inserted(lines, at, ln) == SubSeq(lines, 1, at) \o <<ln>> \o SubSeq(lines, at + 1, Len(lines))

\* the requested columns: with and without the underscore, and one in no header
ColumnNames == {<<"a">>, <<"_", "b">>, <<"_", "c">>}

StarScanInit ==
    /\ fn \in {"scan_star", "parse_star_lines"}
    /\ \E lines \in StarLineFiles :
          IF fn = "scan_star"
          THEN \E at \in 0..Len(lines), ln \in {BlankLine, CommentLine} :
                  fn_in = [lines |-> lines, at |-> at, ln |-> ln]
          ELSE \E c \in ColumnNames : fn_in = [lines |-> lines, column_name |-> c]
    /\ fn_out = None
    /\ fn_done = FALSE

\* find_loops_in_star and parse_star_loop_values on a file, and on the file with
\* a blank or comment line inserted
CallScanStar ==
    /\ fn = "scan_star"
    /\ ~fn_done
    /\ fn_out' = [before |-> scan_star(fn_in.lines),
                  after |-> scan_star(Inserted(fn_in.lines, fn_in.at, fn_in.ln))]
    /\ fn_done' = TRUE
    /\ UNCHANGED <<fn, fn_in>>
    /\ UNCHANGED <<dhVars, lstVars, ogVars>>

\* one call of parse_star_lines
CallParseStarLines ==
    /\ fn = "parse_star_lines"
    /\ ~fn_done
    /\ fn_out' = parse_star_lines(fn_in.lines, fn_in.column_name)
    /\ fn_done' = TRUE
    /\ UNCHANGED <<fn, fn_in>>
    /\ UNCHANGED <<dhVars, lstVars, ogVars>>

----------------------------------------------------------------------------
(* warp/delete_ogs.py: delete_ogs_from_star as a function of a particles   *)
(* file and the set --og, which main passes when it is not empty.          *)

DeleteOgsInit ==
    /\ fn = "delete_ogs_from_star"
    /\ \E star \in MatchFiles, d \in DeleteSets \ {{}} :
          fn_in = [star |-> star, delete_ogs |-> d]
    /\ fn_out = None
    /\ fn_done = FALSE

\* one call of delete_ogs_from_star: the file it writes, or the exception
CallDeleteOgs ==
    /\ fn = "delete_ogs_from_star"
    /\ ~fn_done
    /\ fn_out' = delete_ogs_from_star(fn_in.star, fn_in.delete_ogs)
    /\ fn_done' = TRUE
    /\ UNCHANGED <<fn, fn_in>>
    /\ UNCHANGED <<dhVars, lstVars, ogVars>>

----------------------------------------------------------------------------
(* LST files as text.  A file is the list of its lines; a line is a '#'    *)
(* comment with its text, a blank line, or a data line: its first token,   *)
(* its second token and its key=value tokens in the order of the line.     *)
(* The text of a name or of a key is the sequence of its characters.       *)

\* most lines of an LST file given to divide_histogram
MaxTxtLines == 3

CommentText(text) == [kind |-> "comment", text |-> text]
BlankText == [kind |-> "blank"]
DataText(ix, path, fields) == [kind |-> "data", ix |-> ix, path |-> path, fields |-> fields]
Field(key, val) == [key |-> key, val |-> val]

\* the first line star2lst writes (star2lst.py line 71)
LstHeader == CommentText("#LST")

ScoreKey == <<"s", "c", "o", "r", "e">>
ZScoreKey == <<"z">> \o ScoreKey

\* the text key=value holds column_name followed by '=' when key ends with column_name
EndsWith(key, column_name) ==
    /\ Len(column_name) <= Len(key)
    /\ SubSeq(key, Len(key) - Len(column_name) + 1, Len(key)) = column_name

\* divide_histogram.py lines 52 and 62, pattern.search(raw): the value text of
\* the leftmost match of column_name=(\S+) in the line, NoField without a match
PatternSearch(line, column_name) ==
    IF \A i \in 1..Len(line.fields) : ~EndsWith(line.fields[i].key, column_name)
    THEN NoField
    ELSE line.fields[CHOOSE i \in 1..Len(line.fields) :
                        /\ EndsWith(line.fields[i].key, column_name)
                        /\ \A j \in 1..(i - 1) :
                              ~EndsWith(line.fields[j].key, column_name)].val

\* lst2star.py read_lst lines 119-130: the value of the first token of
\* parts[2:] that starts with param=, NoField without such a token
TokenSearch(line, param) ==
    IF \A i \in 1..Len(line.fields) : line.fields[i].key # param
    THEN NoField
    ELSE line.fields[CHOOSE i \in 1..Len(line.fields) :
                        /\ line.fields[i].key = param
                        /\ \A j \in 1..(i - 1) : line.fields[j].key # param].val

\* parse_lst_lines lines 59-61: the comment lines, in file order
HeaderLinesOf(lines) == SelectSeq(lines, LAMBDA ln : ln.kind = "comment")

\* parse_lst_lines lines 55-71: the entries (original line, value), in file order
RECURSIVE EntriesOf(_, _)
EntriesOf(lines, column_name) ==
    IF lines = <<>> THEN <<>>
    ELSE IF Head(lines).kind # "data" THEN EntriesOf(Tail(lines), column_name)
    ELSE IF PatternSearch(Head(lines), column_name) \in {NoField, NotANumber}
        THEN EntriesOf(Tail(lines), column_name)
    ELSE <<Entry(Head(lines), PatternSearch(Head(lines), column_name))>>
             \o EntriesOf(Tail(lines), column_name)

\* parse_lst_lines lines 47-72 on the lines of a whole file
parse_lst_text(lines, column_name) ==
    [header_lines |-> HeaderLinesOf(lines), entries |-> EntriesOf(lines, column_name)]

\* a mutant of AbsEntries: the values are left signed
AbsEntries_Signed(entries) == entries

\* main line 389
AbsEntries(entries) == [i \in 1..Len(entries) |-> Entry(entries[i].line, Abs(entries[i].val))]

\* write_lst_bucket_file lines 266-273: the lines of one bucket file
write_lst_bucket_file(header_lines, bucket_entries) ==
    header_lines \o [k \in 1..Len(bucket_entries) |-> bucket_entries[k].line]

\* a run's outcome: the exception or exit that ended it and the files written
RunEnded(e) == [err |-> e, files |-> <<>>]
RunWrote(f) == [err |-> "none", files |-> f]

\* process_entries lines 322-339 for an LST input, r what the binning returned
WriteLstBuckets(header, r, onlyhist) ==
    IF r.err # "none" THEN RunEnded(r.err)
    ELSE IF onlyhist THEN RunWrote(<<>>)
    ELSE RunWrote([i \in 1..Len(r.buckets) |-> write_lst_bucket_file(header, r.buckets[i])])

\* process_entries lines 305-320 for an LST input
BinLst(header, entries, a, vmin, vmax) ==
    IF Ge(vmin, vmax) THEN RunEnded("exit 2")
    ELSE IF a.samesize
        THEN WriteLstBuckets(header, assign_bins_same_size(entries, a.bins, vmin, vmax),
                             a.onlyhist)
    ELSE WriteLstBuckets(header, assign_bins(entries, a.bins, vmin, vmax), a.onlyhist)

\* process_entries lines 296-339 for an LST input, the range left to the data
process_entries_lst(header, entries, a) ==
    IF entries = <<>> THEN RunEnded("KeyError")
    ELSE BinLst(header, entries, a, computed_min(entries), computed_max(entries))

\* main lines 385-391
divide_lst(lines, a) ==
    IF a.use_abs
    THEN process_entries_lst(HeaderLinesOf(lines), AbsEntries(EntriesOf(lines, a.column)), a)
    ELSE process_entries_lst(HeaderLinesOf(lines), EntriesOf(lines, a.column), a)

\* the lines of the model: the header, one more comment, a blank line and data
\* lines with no score, a score above or below zero, a score that is no number,
\* a zscore alone, and a zscore before a score
TxtFields ==
    {<<>>,
     <<Field(ScoreKey, Unit)>>,
     <<Field(ScoreKey, -2 * Unit)>>,
     <<Field(ScoreKey, NotANumber)>>,
     <<Field(ZScoreKey, Unit)>>,
     <<Field(ZScoreKey, Unit), Field(ScoreKey, -2 * Unit)>>}
TxtLines ==
    {LstHeader, CommentText("# note"), BlankText}
    \cup {DataText(0, "a.mrcs", f) : f \in TxtFields}

\* an LST file as Jalign and star2lst write it: '#LST' first
LstFiles ==
    {<<LstHeader>> \o ls : ls \in AllSeqs(TxtLines, MaxTxtLines - 1)}
    \cup AllSeqs(TxtLines \ {LstHeader}, MaxTxtLines - 1)

DivideLstArgs ==
    {[column |-> ScoreKey, use_abs |-> ab, samesize |-> ss, bins |-> b, onlyhist |-> oh] :
        ab \in BOOLEAN, ss \in BOOLEAN, b \in 1..2, oh \in BOOLEAN}

DivideLstInit ==
    /\ fn = "divide_lst"
    /\ \E lines \in LstFiles, a \in DivideLstArgs : fn_in = [lines |-> lines, args |-> a]
    /\ fn_out = None
    /\ fn_done = FALSE

\* one run of divide_histogram on an LST file
CallDivideLst ==
    /\ fn = "divide_lst"
    /\ ~fn_done
    /\ fn_out' = divide_lst(fn_in.lines, fn_in.args)
    /\ fn_done' = TRUE
    /\ UNCHANGED <<fn, fn_in>>
    /\ UNCHANGED <<dhVars, lstVars, ogVars>>
\* one call of merge_lst of lst2star on the rows of the two files: tmp.lst
MergeLstInit ==
    /\ fn = "merge_lst"
    /\ \E a \in AllSeqs(LstARows, MaxRowsA) \ {<<>>} :
       \E b \in {None} \cup {Some(q) : q \in AllSeqs(LstBRows, MaxRowsB)} :
          fn_in = [lines1 |-> a, lines2 |-> b]
    /\ fn_out = None
    /\ fn_done = FALSE

\* lst2star.py lines 44-84: tmp.lst is opened for writing and holds the merged lines
CallMergeLst ==
    /\ fn = "merge_lst"
    /\ ~fn_done
    /\ fn_out' = RunWrote(<<MergedLines(fn_in.lines1, fn_in.lines2)>>)
    /\ fn_done' = TRUE
    /\ UNCHANGED <<fn, fn_in>>
    /\ UNCHANGED <<dhVars, lstVars, ogVars>>

----------------------------------------------------------------------------
(* star2lst.py: the particle rows of the STAR file become the rows of an   *)
(* LST file.  A particle is its rlnImageName, the text number@path; the    *)
(* other columns are those of a file that star2lst converts without an     *)
(* exception, and the values computed from them are not modelled.          *)

\* most particle rows of the STAR file
MaxParticles == 2

\* s.split("@")
RECURSIVE SplitAt(_)
SplitAt(s) ==
    IF \A i \in 1..Len(s) : s[i] # "@" THEN <<s>>
    ELSE LET i == CHOOSE k \in 1..Len(s) : s[k] = "@" /\ \A j \in 1..(k - 1) : s[j] # "@"
         IN  <<SubSeq(s, 1, i - 1)>> \o SplitAt(SubSeq(s, i + 1, Len(s)))

\* int(s) for the texts of the model: digits, with a '-' before them or not;
\* None for ValueError
PyInt(s) ==
    IF s # <<>> /\ \A i \in 1..Len(s) : IsDigit(s[i]) THEN Some(IntOfDigits(s))
    ELSE IF Len(s) > 1 /\ s[1] = "-" /\ \A i \in 2..Len(s) : IsDigit(s[i])
        THEN Some(-IntOfDigits(Tail(s)))
    ELSE None

\* the key=value tokens of a row of star2lst (lines 119-122), by their keys
Star2LstTokens ==
    <<<<"euler=">>, <<"center=">>, <<"voltage=">>, <<"cs=">>, <<"apix=">>,
      <<"ampcont=">>, <<"defocus=">>, <<"dfdiff=">>, <<"dfang=">>>>

\* a mutant of Star2LstRow: the image number is written as it is
Star2LstRow_SameIndex(image_entry) ==
    IF Len(SplitAt(image_entry)) # 2 THEN None
    ELSE IF PyInt(SplitAt(image_entry)[1]) = None THEN None
    ELSE Some(DataText(Str(TheValue(PyInt(SplitAt(image_entry)[1]))),
                       SplitAt(image_entry)[2], Star2LstTokens))

\* lines 74-77 and 118-123: the row written for image_entry, None when split("@")
\* does not give two pieces or int() rejects the first
Star2LstRow(image_entry) ==
    IF Len(SplitAt(image_entry)) # 2 THEN None
    ELSE IF PyInt(SplitAt(image_entry)[1]) = None THEN None
    ELSE Some(DataText(Str(TheValue(PyInt(SplitAt(image_entry)[1])) - 1),
                       SplitAt(image_entry)[2], Star2LstTokens))

\* lines 73-123: the rows written until the loop ends or ValueError ends it
RECURSIVE Star2LstRows(_)
Star2LstRows(names) ==
    IF names = <<>> THEN [err |-> "none", rows |-> <<>>]
    ELSE IF Star2LstRow(Head(names)) = None THEN [err |-> "ValueError", rows |-> <<>>]
    ELSE [err |-> Star2LstRows(Tail(names)).err,
          rows |-> <<TheValue(Star2LstRow(Head(names)))>> \o Star2LstRows(Tail(names)).rows]

\* main lines 69-123: the file is opened, '#LST' is written, then the rows
star2lst(names) ==
    [err |-> Star2LstRows(names).err,
     files |-> <<<<LstHeader>> \o Star2LstRows(names).rows>>]

\* line.split() of a row written as ix TAB path TAB tokens: an empty text is no token
RowTokens(row) ==
    SelectSeq(<<row.ix, row.path>> \o row.fields, LAMBDA t : t # <<>>)

\* lst2star.py read_lst lines 97-112 on the tokens of a data line: the tag, None
\* when the line is skipped
TagOfTokens(parts) ==
    IF Len(parts) < 2 THEN None
    ELSE IF PyInt(parts[1]) = None THEN None
    ELSE Some(zfill(Str(TheValue(PyInt(parts[1])) + 1), 6) \o <<"@">> \o parts[2])

\* the rlnImageName values of the model: six zero-padded digits, fewer or more
\* digits, an empty path, a path holding '@', no '@', a number that is no integer
PathText == <<"a", ".", "m">>
ImageNames ==
    {zfill(Str(n), 6) \o <<"@">> \o PathText : n \in {0, 1, 42, 999999, 1000000}}
    \cup {Str(5) \o <<"@">> \o PathText,
          zfill(Str(1), 6) \o <<"@">>,
          zfill(Str(1), 6) \o <<"@", "d", "@">> \o PathText,
          PathText,
          <<"x", "1", "@">> \o PathText}

Star2LstInit ==
    /\ fn = "star2lst"
    /\ \E names \in AllSeqs(ImageNames, MaxParticles) : fn_in = [names |-> names]
    /\ fn_out = None
    /\ fn_done = FALSE

\* one run of star2lst
CallStar2Lst ==
    /\ fn = "star2lst"
    /\ ~fn_done
    /\ fn_out' = star2lst(fn_in.names)
    /\ fn_done' = TRUE
    /\ UNCHANGED <<fn, fn_in>>
    /\ UNCHANGED <<dhVars, lstVars, ogVars>>

----------------------------------------------------------------------------
(* warp/delete_ogs.py: delete_ogs_from_star as a function of a tomograms   *)
(* file whose blocks need not be one per row of data_global.               *)

\* rows of data_global: two tomograms, optics groups 1 and 3 and a name without digits
TomoRows == {GlobalRow(TomoName(t), nm) : t \in 1..2, nm \in {OGName(1), OGName(3), <<"o", "g">>}}

\* the per-tomogram blocks of the file: a block can lack its row, a row its block
TomoBlockSets ==
    {{TomoName(1), TomoName(2)}, {TomoName(1), TomoName(2), TomoName(9)}, {TomoName(1)}}

DeleteTomoInit ==
    /\ fn = "delete_ogs_tomograms"
    /\ \E rows \in AllSeqs(TomoRows, MaxGlobalRows), blocks \in TomoBlockSets,
          d \in DeleteSets \ {{}} :
          fn_in = [star |-> StarDoc(Some(rows), None, None, blocks), delete_ogs |-> d]
    /\ fn_out = None
    /\ fn_done = FALSE

\* one call of delete_ogs_from_star on a tomograms file: the file it writes
CallDeleteTomo ==
    /\ fn = "delete_ogs_tomograms"
    /\ ~fn_done
    /\ fn_out' = delete_ogs_from_star(fn_in.star, fn_in.delete_ogs)
    /\ fn_done' = TRUE
    /\ UNCHANGED <<fn, fn_in>>
    /\ UNCHANGED <<dhVars, lstVars, ogVars>>

----------------------------------------------------------------------------
(* The renumbering and binning functions on objects.  A table or a list is *)
(* an object of a store; a function is given the objects of its arguments, *)
(* makes new objects and assigns to objects, and the store after the call  *)
(* tells which objects it changed.  An object not made yet is empty.       *)

\* a mutant of NewObject: no new object, the name refers to the object itself
NewObject_Alias(src, new) == src

\* df.copy(), sorted(xs), [x for x in xs ...]: the result is a new object
NewObject(src, new) == new

\* x = src.copy()
CopyOf(store, src, new) == [store EXCEPT ![NewObject(src, new)] = store[src]]

\* df[key] = values
SetColumn(store, obj, key, values) ==
    [store EXCEPT ![obj] = [i \in 1..Len(store[obj]) |->
                               [store[obj][i] EXCEPT ![key] = values[i]]]]

\* delete_ogs.py renumber_global_names lines 89-94
renumber_global_names_store(store) ==
    SetColumn(CopyOf(store, "df_global", "df_new"), NewObject("df_global", "df_new"),
              "rlnOpticsGroupName",
              renumber_global_names(Column(store["df_global"], "rlnOpticsGroupName")).names)

\* split_matchingstar.py renumber_global_names lines 123-135
renumber_global_names_S_store(store) ==
    SetColumn(CopyOf(store, "df_global", "df_new"), NewObject("df_global", "df_new"),
              "rlnOpticsGroupName",
              renumber_global_names_S(Column(store["df_global"], "rlnOpticsGroupName")).names)

\* split_matchingstar.py renumber_optics_and_particles lines 156-166, ren what
\* the columns become
OpticsAndParticlesStore(store, ren) ==
    SetColumn(
        CopyOf(SetColumn(SetColumn(CopyOf(store, "df_optics", "df_opt_new"),
                                   NewObject("df_optics", "df_opt_new"),
                                   "rlnOpticsGroup", Column(ren.optics, "rlnOpticsGroup")),
                         NewObject("df_optics", "df_opt_new"),
                         "rlnOpticsGroupName", Column(ren.optics, "rlnOpticsGroupName")),
               "df_particles", "df_part_new"),
        NewObject("df_particles", "df_part_new"),
        "rlnOpticsGroup", Column(ren.particles, "rlnOpticsGroup"))

renumber_optics_and_particles_store(store) ==
    OpticsAndParticlesStore(
        store, renumber_optics_and_particles(store["df_optics"], store["df_particles"]))

\* divide_histogram.py assign_bins lines 183-207: buckets is a list of new
\* lists, the entries are appended to them
assign_bins_store(store, bins, vmin, vmax) ==
    IF assign_bins(store["entries"], bins, vmin, vmax).err # "none" THEN store
    ELSE [store EXCEPT !["buckets"] = assign_bins(store["entries"], bins, vmin, vmax).buckets]

\* assign_bins_same_size lines 216-233: in_range is the list of the
\* comprehension, entries_sorted the list sorted() returns, buckets its slices
SameSizeStore(store, bins, vmin, vmax, r) ==
    IF r.err # "none"
        THEN [store EXCEPT ![NewObject("entries", "in_range")] =
                               InRange(store["entries"], vmin, vmax)]
    ELSE [store EXCEPT ![NewObject("entries", "in_range")] =
                           InRange(store["entries"], vmin, vmax),
                       ![NewObject(NewObject("entries", "in_range"), "entries_sorted")] =
                           SortedByValue(InRange(store["entries"], vmin, vmax)),
                       !["buckets"] = r.buckets]

assign_bins_same_size_store(store, bins, vmin, vmax) ==
    SameSizeStore(store, bins, vmin, vmax,
                  assign_bins_same_size(store["entries"], bins, vmin, vmax))

\* the functions and, for each, the objects it is given
StoreFunctions ==
    {"renumber_global_names", "renumber_global_names_S", "renumber_optics_and_particles",
     "assign_bins", "assign_bins_same_size"}
ArgumentsOf(f) ==
    CASE f \in {"renumber_global_names", "renumber_global_names_S"} -> {"df_global"}
      [] f = "renumber_optics_and_particles" -> {"df_optics", "df_particles"}
      [] OTHER -> {"entries"}

\* the stores of the model before the call
GlobalStores ==
    {[df_global |-> [i \in 1..Len(names) |-> GlobalRow(TomoName(i), names[i])],
      df_new |-> <<>>] : names \in AllSeqs(OGNames, MaxGlobalRows)}
OpticsStores ==
    {[df_optics |-> o, df_particles |-> p, df_opt_new |-> <<>>, df_part_new |-> <<>>] :
        o \in AllSeqs(OpticsRows, MaxOpticsRows), p \in ParticleLists}
EntryStores ==
    {[entries |-> [i \in 1..Len(vs) |-> Entry(i, vs[i])],
      in_range |-> <<>>, entries_sorted |-> <<>>, buckets |-> <<>>] :
        vs \in AllSeqs(Floats, MaxLen)}
BinRanges == {r \in FiniteVals \X FiniteVals : r[1] < r[2]}

StoreInit ==
    /\ fn \in StoreFunctions
    /\ \E s \in (CASE fn \in {"renumber_global_names", "renumber_global_names_S"}
                        -> GlobalStores
                   [] fn = "renumber_optics_and_particles" -> OpticsStores
                   [] OTHER -> EntryStores) :
       \E b \in 1..MaxBins, r \in BinRanges :
          fn_in = IF fn \in {"assign_bins", "assign_bins_same_size"}
                  THEN [store |-> s, bins |-> b, vmin |-> r[1], vmax |-> r[2]]
                  ELSE [store |-> s]
    /\ fn_out = None
    /\ fn_done = FALSE

\* one call of a renumbering function: the store after it and the mapping returned
CallRenumberStore ==
    /\ fn \in {"renumber_global_names", "renumber_global_names_S",
               "renumber_optics_and_particles"}
    /\ ~fn_done
    /\ fn_out' = [store |->
                     CASE fn = "renumber_global_names"
                            -> renumber_global_names_store(fn_in.store)
                       [] fn = "renumber_global_names_S"
                            -> renumber_global_names_S_store(fn_in.store)
                       [] OTHER -> renumber_optics_and_particles_store(fn_in.store),
                  mapping |->
                     CASE fn = "renumber_global_names"
                            -> renumber_global_names(
                                   Column(fn_in.store["df_global"], "rlnOpticsGroupName")).mapping
                       [] fn = "renumber_global_names_S"
                            -> renumber_global_names_S(
                                   Column(fn_in.store["df_global"], "rlnOpticsGroupName")).mapping
                       [] OTHER -> renumber_optics_and_particles(
                                       fn_in.store["df_optics"],
                                       fn_in.store["df_particles"]).mapping]
    /\ fn_done' = TRUE
    /\ UNCHANGED <<fn, fn_in>>
    /\ UNCHANGED <<dhVars, lstVars, ogVars>>

\* one call of a binning function
CallBinStore ==
    /\ fn \in {"assign_bins", "assign_bins_same_size"}
    /\ ~fn_done
    /\ fn_out' = [store |->
                     IF fn = "assign_bins"
                     THEN assign_bins_store(fn_in.store, fn_in.bins, fn_in.vmin, fn_in.vmax)
                     ELSE assign_bins_same_size_store(fn_in.store, fn_in.bins,
                                                      fn_in.vmin, fn_in.vmax)]
    /\ fn_done' = TRUE
    /\ UNCHANGED <<fn, fn_in>>
    /\ UNCHANGED <<dhVars, lstVars, ogVars>>

----------------------------------------------------------------------------
(* divide_histogram.py: find_loops_in_star step by step, one action per    *)
(* pass through one of its three while loops.  The state of the call is    *)
(* fn_out: where it is, its counters i, j, k and the loops appended.       *)

\* most lines of the list given to find_loops_in_star
MaxScanLines == 4

\* every list of lines of the model is scanned: the lines are of the five kinds
\* the scanner tells apart
ScanLineKinds ==
    {BlockLine, LoopLine, HeaderLine(<<"_", "a">>), RowLine(<<Str(1)>>), BlankLine}

\* a mutant of EndsData: a data_ line does not end the data region
EndsData_NotAtBlock(line) == line.kind \in {"header", "loop_"}

\* line 107: the line ends the data region
EndsData(line) == line.kind \in {"header", "loop_", "data_"}

\* lines 87-89
ScanLoopsInit ==
    /\ fn = "find_loops_in_star"
    /\ \E lines \in AllSeqs(ScanLineKinds, MaxScanLines) : fn_in = [lines |-> lines]
    /\ fn_out = [pc |-> "outer", i |-> 0, j |-> 0, k |-> 0,
                 loop_start |-> 0, header_start |-> None, loops |-> <<>>]
    /\ fn_done = FALSE

\* lines 90-96 and 119-120: one pass of the outer loop up to the header loop
ScanLine ==
    /\ fn = "find_loops_in_star" /\ ~fn_done
    /\ fn_out.pc = "outer"
    /\ fn_out.i < Len(fn_in.lines)
    /\ fn_out' = IF At(fn_in.lines, fn_out.i).kind = "loop_"
                 THEN [fn_out EXCEPT !.pc = "headers", !.loop_start = fn_out.i,
                                     !.j = fn_out.i + 1, !.header_start = None]
                 ELSE [fn_out EXCEPT !.i = fn_out.i + 1]
    /\ UNCHANGED <<fn, fn_in, fn_done>>
    /\ UNCHANGED <<dhVars, lstVars, ogVars>>

\* lines 97-104: one pass of the header loop, or its end
GatherHeader ==
    /\ fn = "find_loops_in_star" /\ ~fn_done
    /\ fn_out.pc = "headers"
    /\ fn_out' = IF fn_out.j < Len(fn_in.lines) /\ At(fn_in.lines, fn_out.j).kind = "header"
                 THEN [fn_out EXCEPT !.header_start = IF @ = None THEN Some(fn_out.j) ELSE @,
                                     !.j = fn_out.j + 1]
                 ELSE [fn_out EXCEPT !.pc = "data", !.k = fn_out.j]
    /\ UNCHANGED <<fn, fn_in, fn_done>>
    /\ UNCHANGED <<dhVars, lstVars, ogVars>>

\* lines 105-118: one pass of the data loop, or its end: the loop is appended
\* and the outer loop goes on at data_end
ScanData ==
    /\ fn = "find_loops_in_star" /\ ~fn_done
    /\ fn_out.pc = "data"
    /\ fn_out' = IF fn_out.k < Len(fn_in.lines) /\ ~EndsData(At(fn_in.lines, fn_out.k))
                 THEN [fn_out EXCEPT !.k = fn_out.k + 1]
                 ELSE [fn_out EXCEPT
                          !.pc = "outer",
                          !.i = fn_out.k,
                          !.loops = Append(@, [loop_start |-> fn_out.loop_start,
                                               header_start |-> fn_out.header_start,
                                               header_end |-> fn_out.j,
                                               data_start |-> fn_out.j,
                                               data_end |-> fn_out.k])]
    /\ UNCHANGED <<fn, fn_in, fn_done>>
    /\ UNCHANGED <<dhVars, lstVars, ogVars>>

\* lines 90 and 121: the outer loop ends and the loops are returned
ReturnLoops ==
    /\ fn = "find_loops_in_star" /\ ~fn_done
    /\ fn_out.pc = "outer"
    /\ fn_out.i >= Len(fn_in.lines)
    /\ fn_done' = TRUE
    /\ UNCHANGED <<fn, fn_in, fn_out>>
    /\ UNCHANGED <<dhVars, lstVars, ogVars>>

\* ---------------------------------------------------------------------------
\* divide_histogram.py on a STAR file.  A line of the file is the record of the
\* STAR scanner; the newline that ends it is part of the line and is not
\* modelled apart (line 288 strips it from a row and writes it again).
\* ---------------------------------------------------------------------------

\* a mutant of write_star_bucket_file: the lines after the data region are
\* written from the start of the data region on
write_star_bucket_file_FromDataStart(lines, loop, bucket_entries) ==
    SubSeq(lines, 1, loop.loop_start + 1)
    \o Slice(lines, TheValue(loop.header_start), loop.header_end)
    \o [k \in 1..Len(bucket_entries) |-> bucket_entries[k].line]
    \o <<BlankLine>>
    \o Slice(lines, loop.data_start, Len(lines))

\* write_star_bucket_file, lines 276-293: the lines up to and with the loop_
\* line, the header lines, the lines of the bucket's entries, one empty line,
\* and the lines from data_end on
write_star_bucket_file(lines, loop, bucket_entries) ==
    SubSeq(lines, 1, loop.loop_start + 1)
    \o Slice(lines, TheValue(loop.header_start), loop.header_end)
    \o [k \in 1..Len(bucket_entries) |-> bucket_entries[k].line]
    \o <<BlankLine>>
    \o Slice(lines, loop.data_end, Len(lines))

\* process_entries lines 332-339 for a STAR input
WriteStarBuckets(lines, loop, r, onlyhist) ==
    IF r.err # "none" THEN RunEnded(r.err)
    ELSE IF onlyhist THEN RunWrote(<<>>)
    ELSE RunWrote([i \in 1..Len(r.buckets) |->
                      write_star_bucket_file(lines, loop, r.buckets[i])])

\* process_entries lines 305-320 for a STAR input
BinStar(lines, loop, entries, a, vmin, vmax) ==
    IF Ge(vmin, vmax) THEN RunEnded("exit 2")
    ELSE IF a.samesize
        THEN WriteStarBuckets(lines, loop,
                              assign_bins_same_size(entries, a.bins, vmin, vmax), a.onlyhist)
    ELSE WriteStarBuckets(lines, loop, assign_bins(entries, a.bins, vmin, vmax), a.onlyhist)

\* process_entries lines 296-339 for a STAR input, the range left to the data
process_entries_star(lines, loop, entries, a) ==
    IF entries = <<>> THEN RunEnded("KeyError")
    ELSE BinStar(lines, loop, entries, a, computed_min(entries), computed_max(entries))

\* the entries of parse_star_lines with their values in the unit of the
\* binning arithmetic
InUnits(entries) == [k \in 1..Len(entries) |-> Entry(entries[k].line, entries[k].val * Unit)]

\* main lines 393-397 on the result p of parse_star_lines
DivideParsed(lines, p, a) ==
    IF p.err # "none" THEN RunEnded(p.err)
    ELSE IF a.use_abs
        THEN process_entries_star(lines, At(find_loops_in_star(lines), p.li),
                                  AbsEntries(InUnits(p.entries)), a)
    ELSE process_entries_star(lines, At(find_loops_in_star(lines), p.li),
                              InUnits(p.entries), a)

\* main lines 382-397 for a STAR file
divide_star(lines, a) == DivideParsed(lines, parse_star_lines(lines, a.column), a)

\* the runs of the model: a block alone, or before or after one more block with
\* a column of its own, with a blank or comment line put somewhere in the file;
\* two bins, and the bucket files asked for
OtherBlock == <<BlockLine, LoopLine, HeaderLine(<<"_", "c">>), RowLine(<<Str(1)>>)>>
DivideStarFiles ==
    StarBlocks \cup {b \o OtherBlock : b \in StarBlocks}
               \cup {OtherBlock \o b : b \in StarBlocks}
DivideStarArgs ==
    {[column |-> c, use_abs |-> ab, samesize |-> ss, bins |-> 2, onlyhist |-> FALSE] :
        c \in ColumnNames, ab \in BOOLEAN, ss \in BOOLEAN}

DivideStarInit ==
    /\ fn = "divide_star"
    /\ \E base \in DivideStarFiles, ln \in {BlankLine, CommentLine}, a \in DivideStarArgs :
       \E at \in 0..Len(base) :
          fn_in = [lines |-> Inserted(base, at, ln), args |-> a]
    /\ fn_out = None
    /\ fn_done = FALSE

\* one run of divide_histogram on a STAR file
CallDivideStar ==
    /\ fn = "divide_star"
    /\ ~fn_done
    /\ fn_out' = divide_star(fn_in.lines, fn_in.args)
    /\ fn_done' = TRUE
    /\ UNCHANGED <<fn, fn_in>>
    /\ UNCHANGED <<dhVars, lstVars, ogVars>>

----------------------------------------------------------------------------
(* The specifications: one script runs, the state of the others stays as   *)
(* it is before they start.                                                *)

vars == <<dhVars, lstVars, fnVars, ogVars>>

\* no run of divide_histogram
DHIdle ==
    /\ args = [bins |-> 1, vmin |-> None, vmax |-> None,
               samesize |-> FALSE, onlyhist |-> FALSE]
    /\ pe_entries = <<>>
    /\ pc = "idle"
    /\ pe_vmin = 0
    /\ pe_vmax = 0
    /\ res = NoResult
    /\ out_dir = FALSE
    /\ bucket_files = <<>>
    /\ hist_file = FALSE
    /\ status = "running"

\* no run of lst2star or lstFiltered2star
LstIdle ==
    /\ script = "none"
    /\ flt = None
    /\ lstA = <<>>
    /\ lstB = None
    /\ jpc = "idle"
    /\ tmp_lst = None
    /\ kept_images = <<>>
    /\ keep_idxs = {}
    /\ mapping = <<>>
    /\ keep_images = {}
    /\ in_star = None
    /\ out_star = None
    /\ jstatus = "running"

\* no call of a function on its own
FnIdle ==
    /\ fn = "none"
    /\ fn_in = None
    /\ fn_out = None
    /\ fn_done = FALSE

\* no run of delete_ogs or split_matchingstar
OGIdle ==
    /\ og_tool = "none"
    /\ og_args = None
    /\ og_tomo = None
    /\ og_match = None
    /\ og_pc = "idle"
    /\ og_maps = None
    /\ og_files = None
    /\ og_status = "running"

\* divide_histogram.py
Init == DHInit /\ LstIdle /\ FnIdle /\ OGIdle
Next == DHNext
Spec == Init /\ [][Next]_vars

\* lst2star.py and lstFiltered2star.py
InitLst == LstInit /\ DHIdle /\ FnIdle /\ OGIdle
NextLst == LstNext
SpecLst == InitLst /\ [][NextLst]_vars

FnInit ==
    \/ FilterStarInit \/ RenumberInit \/ ReadersInit \/ StarScanInit \/ DeleteOgsInit
    \/ DeleteTomoInit

FnNext ==
    \/ CallFilterStar
    \/ CallRenumber
    \/ CallReadLst
    \/ CallReadLst1
    \/ CallReadLst2
    \/ CallParseLstLines
    \/ CallScanStar
    \/ CallParseStarLines
    \/ CallDeleteOgs
    \/ CallDeleteTomo

\* one call of one function
InitFn == FnInit /\ DHIdle /\ LstIdle /\ OGIdle
NextFn == FnNext
SpecFn == InitFn /\ [][NextFn]_vars

\* delete_ogs.py and split_matchingstar.py
InitOG == OGInit /\ DHIdle /\ LstIdle /\ FnIdle
NextOG == OGNext
SpecOG == InitOG /\ [][NextOG]_vars

\* the runs and calls that write or read files as text
TxtInit == DivideLstInit \/ MergeLstInit \/ Star2LstInit
TxtNext ==
    \/ CallDivideLst
    \/ CallMergeLst
    \/ CallStar2Lst
InitTxt == TxtInit /\ DHIdle /\ LstIdle /\ OGIdle
NextTxt == TxtNext
SpecTxt == InitTxt /\ [][NextTxt]_vars

\* the calls of the renumbering and binning functions on objects
InitObj == StoreInit /\ DHIdle /\ LstIdle /\ OGIdle
NextObj == CallRenumberStore \/ CallBinStore
SpecObj == InitObj /\ [][NextObj]_vars

\* find_loops_in_star step by step; the call goes on as long as it can
InitScan == ScanLoopsInit /\ DHIdle /\ LstIdle /\ OGIdle
NextScan == ScanLine \/ GatherHeader \/ ScanData \/ ReturnLoops
SpecScan == InitScan /\ [][NextScan]_vars /\ WF_vars(NextScan)

\* the runs of divide_histogram on STAR files
InitDivStar == DivideStarInit /\ DHIdle /\ LstIdle /\ OGIdle
NextDivStar == CallDivideStar
SpecDivStar == InitDivStar /\ [][NextDivStar]_vars

----------------------------------------------------------------------------
(* Vocabulary of the claims on lst2star and lstFiltered2star.              *)

Lst2StarRun == script = "lst2star"
LstFilteredRun == script = "lstFiltered2star"

\* filter_star has run
StarRead == in_star # None
StarRowNames == {TheValue(in_star)[k].rlnImageName : k \in 1..Len(TheValue(in_star))}

\* the keep-set handed to filter_star
KeepSet == IF Lst2StarRun THEN SeqToSet(kept_images) ELSE keep_images

\* the number of data rows of lstB; a missing file has none
LenB == IF lstB = None THEN 0 ELSE Len(TheValue(lstB))
RowOfB(n) == TheValue(lstB)[n + 1]
TagOfB(n) == read_lst_tag(RowOfB(n).ix, RowOfB(n).path)

\* the predicate of the run selects the i-th data row of lstA
SelectedA(i) ==
    IF Lst2StarRun
    THEN flt.greaterthan = None \/ lstA[i].score > TheValue(flt.greaterthan)
    ELSE lstA[i].score > flt.threshold

\* the join of the run has been made
L2SJoinDone == Lst2StarRun /\ tmp_lst # None /\ jpc \in {"filter", "end"}
LFJoinDone == LstFilteredRun /\ keep_idxs # {} /\ lstB # None /\ jpc \in {"filter", "end"}

\* the tags of the selected rows of lstA, in the order of lstA, when row i of
\* lstA (counted from 1) is resolved by row ref(i) of lstB (counted from 0);
\* rows that lstB has no row for contribute nothing
TagsVia(ref(_)) ==
    LET S == {i \in 1..Len(lstA) : SelectedA(i) /\ ref(i) \in 0..(LenB - 1)}
        Nth(k) == CHOOSE i \in S : Cardinality({j \in S : j <= i}) = k
    IN  [k \in 1..Cardinality(S) |-> TagOfB(ref(Nth(k)))]

ByPosition(i) == i - 1
ByFirstColumn(i) == lstA[i].ix

\* C6 as stated: in lst2star, a run in which no STAR particle row matches the
\* keep-set ends with a non-zero exit status, and the output STAR file is not
\* written at any point of that run.
C6_ZeroResultBeforeWrite ==
    Lst2StarRun /\ StarRead /\ StarRowNames \cap KeepSet = {}
    => jstatus \notin {"running", "ok"} /\ out_star = None

JoinMismatch ==
    \/ Len(lstA) # LenB
    \/ \E i \in 1..Len(lstA) : SelectedA(i) /\ lstA[i].ix >= LenB

\* C9 as stated: when lstA and lstB differ in their number of data rows, or a
\* selected row of lstA has no counterpart in lstB, the join ends in an error:
\* the run never goes on to the STAR file with the rows that resolve.
C9_MismatchIsError ==
    (Lst2StarRun \/ LstFilteredRun) /\ JoinMismatch
    => jpc # "filter" /\ in_star = None /\ jstatus # "ok"

DigitValue(c) == CHOOSE d \in 0..9 : DigitChars[d + 1] = c

RECURSIVE DecimalValue(_)
DecimalValue(ds) ==
    IF ds = <<>> THEN 0
    ELSE 10 * DecimalValue(SubSeq(ds, 1, Len(ds) - 1)) + DigitValue(ds[Len(ds)])

\* tag is the decimal form of index + 1 left-padded with zeros to width 6, then
\* "@", then the path
IsTagOf(tag, index, path) ==
    LET n == Len(tag) - 2
    IN  /\ n >= 6
        /\ \A k \in 1..n : tag[k] \in SeqToSet(DigitChars)
        /\ DecimalValue(SubSeq(tag, 1, n)) = index + 1
        /\ n > 6 => tag[1] # "0"
        /\ tag[n + 1] = "@"
        /\ tag[n + 2] = path

\* C10: the tag built from an LST row (index, path), index >= 0, is the decimal
\* form of index + 1 left-padded with zeros to width 6, then '@', then the path
\* unchanged; read_lst and read_lst2 build the same tag for the same row.
C10_TagFormat ==
    /\ \A n \in 0..(LenB - 1) :
          /\ IsTagOf(read_lst_tag(RowOfB(n).ix, RowOfB(n).path), RowOfB(n).ix, RowOfB(n).path)
          /\ read_lst2_tag(RowOfB(n).ix, RowOfB(n).path)
                = read_lst_tag(RowOfB(n).ix, RowOfB(n).path)
    /\ \A k \in 1..Len(mapping) : IsTagOf(mapping[k], RowOfB(k - 1).ix, RowOfB(k - 1).path)
    /\ \A t \in KeepSet : \E n \in 0..(LenB - 1) : IsTagOf(t, RowOfB(n).ix, RowOfB(n).path)

\* a lstFiltered2star run that keeps the tag 000042@stack.mrcs of the lstB row
\* (41, stack.mrcs), and whose lstB also has the row (999999, a.mrcs) with the
\* seven-digit tag 1000000@a.mrcs
C10_Witness ==
    /\ LstFilteredRun
    /\ \E k \in 1..Len(mapping) :
          /\ RowOfB(k - 1) = RowB(41, "stack.mrcs")
          /\ mapping[k] = <<"0", "0", "0", "0", "4", "2", "@", "stack.mrcs">>
          /\ mapping[k] \in keep_images
    /\ \E k \in 1..Len(mapping) :
          /\ RowOfB(k - 1) = RowB(999999, "a.mrcs")
          /\ mapping[k] = <<"1", "0", "0", "0", "0", "0", "0", "@", "a.mrcs">>

----------------------------------------------------------------------------
(* Claims on filter_star. *)

FilterStarCalled == fn = "filter_star" /\ fn_done

\* the rows of the input block whose rlnImageName is in the keep-set
MatchingRows ==
    {r \in 1..NumRows(fn_in.block) : fn_in.block.cols["rlnImageName"][r] \in fn_in.keep_images}

\* the k-th of them, from the top of the block
NthMatching(k) == CHOOSE r \in MatchingRows : Cardinality({q \in MatchingRows : q <= r}) = k

\* C11: for a block that has column rlnImageName and at least one matching row,
\* the output block of filter_star has the columns of the input block in the
\* same order, and its rows are exactly the input rows whose rlnImageName is in
\* the keep-set, in their original order, each with the values of that input
\* row in every column.
C11_FilterStarRows ==
    FilterStarCalled /\ HasColumn(fn_in.block, "rlnImageName") /\ MatchingRows # {}
    => /\ fn_out # None
       /\ TheValue(fn_out).keys = fn_in.block.keys
       /\ DOMAIN TheValue(fn_out).cols = DOMAIN fn_in.block.cols
       /\ Len(WrittenRows(TheValue(fn_out))) = Cardinality(MatchingRows)
       /\ \A k \in 1..Cardinality(MatchingRows) :
             WrittenRows(TheValue(fn_out))[k] = WrittenRows(fn_in.block)[NthMatching(k)]

\* the names 000001@a.mrcs, 000002@a.mrcs, 000003@a.mrcs filtered against
\* {000002@a.mrcs}: one row is written, the second, with its rlnCoordinateX
C11_Witness ==
    /\ FilterStarCalled
    /\ fn_in.block.keys = <<"rlnImageName", "rlnCoordinateX">>
    /\ fn_in.block.cols["rlnImageName"]
          = <<read_lst_tag(0, "a.mrcs"), read_lst_tag(1, "a.mrcs"), read_lst_tag(2, "a.mrcs")>>
    /\ fn_in.keep_images = {read_lst_tag(1, "a.mrcs")}
    /\ fn_out # None
    /\ WrittenRows(TheValue(fn_out)) = <<<<read_lst_tag(1, "a.mrcs"), 2>>>>

----------------------------------------------------------------------------
(* Claims on the renumbering of optics groups. *)

RenumberCalled == fn = "renumber_global_names" /\ fn_done

\* the rows of the column whose name has a run of digits, and the ID of a row
RowsWithId == {i \in 1..Len(fn_in.names) : extract_digits_int(fn_in.names[i]) # None}
IdOfRow(i) == TheValue(extract_digits_int(fn_in.names[i]))

\* the distinct IDs among the rows up to the first row that has the ID of row i
IdsUpToFirst(i) ==
    LET first == CHOOSE f \in RowsWithId :
                    IdOfRow(f) = IdOfRow(i) /\ \A g \in RowsWithId : g < f => IdOfRow(g) # IdOfRow(i)
    IN  {IdOfRow(j) : j \in {g \in RowsWithId : g <= first}}

\* C12: the mapping of renumber_global_names sends the k-th distinct extracted
\* ID, in the order of first appearance in the rows, to k; it is injective, its
\* values are exactly 1..N for N distinct extracted IDs, and rows whose name has
\* no run of digits add no key.
C12_MappingByFirstAppearance ==
    RenumberCalled =>
       LET m == fn_out.mapping
           N == Cardinality({IdOfRow(i) : i \in RowsWithId})
       IN  /\ DOMAIN m = {IdOfRow(i) : i \in RowsWithId}
           /\ \A i \in RowsWithId : m[IdOfRow(i)] = Cardinality(IdsUpToFirst(i))
           /\ \A a \in DOMAIN m : \A b \in DOMAIN m : m[a] = m[b] => a = b
           /\ {m[a] : a \in DOMAIN m} = 1..N

\* the names og_7, og_3, og_7, og_9 give {7: 1, 3: 2, 9: 3}
C12_Witness ==
    /\ RenumberCalled
    /\ fn_in.names = <<OGName(7), OGName(3), OGName(7), OGName(9)>>
    /\ fn_out.mapping = (7 :> 1) @@ (3 :> 2) @@ (9 :> 3)
    /\ fn_out.names = <<OGName(1), OGName(2), OGName(1), OGName(3)>>

----------------------------------------------------------------------------
(* Claims on warp/delete_ogs.py and warp/split_matchingstar.py.            *)

DeleteOgsDone == og_tool = "delete_ogs" /\ og_pc = "end" /\ og_status = "ok" /\ og_args.og # {}
SplitDone == og_tool = "split_matchingstar" /\ og_pc = "end" /\ og_status = "ok"

\* two mappings give every original optics group they both hold the same new number
SameNumbers(m1, m2) == \A g \in DOMAIN m1 \cap DOMAIN m2 : m1[g] = m2[g]

\* the mappings the two calls of delete_ogs_from_star return
TomoMapping == TheValue(delete_ogs_from_star(og_tomo, og_args.og).mapping)
MatchMapping == TheValue(delete_ogs_from_star(og_match, og_args.og).mapping)

\* data_optics whose rows each have the number of their name as rlnOpticsGroup
NamesMatchGroups(df_optics) ==
    \A i \in 1..Len(df_optics) :
        extract_digits_int(df_optics[i].rlnOpticsGroupName) = Some(df_optics[i].rlnOpticsGroup)

\* data_optics whose rows have distinct rlnOpticsGroup values
DistinctGroups(df_optics) ==
    \A i, j \in 1..Len(df_optics) :
        df_optics[i].rlnOpticsGroup = df_optics[j].rlnOpticsGroup => i = j

\* the two files as Warp and RELION write them: every optics row has the number
\* of its name as rlnOpticsGroup, no group twice in data_optics, and the two
\* files hold the same optics groups
RegularMatch ==
    /\ og_match.optics # None
    /\ NamesMatchGroups(TheValue(og_match.optics))
    /\ DistinctGroups(TheValue(og_match.optics))
    /\ SeqToSet(Column(TheValue(og_match.optics), "rlnOpticsGroup"))
           = SeqToSet(SeenIds(Column(TheValue(og_tomo.global), "rlnOpticsGroupName")))

\* C13: after delete_ogs, and inside each half split_matchingstar writes, every
\* remaining original optics group has the same new number in the tomograms
\* file as in the particles file, whatever the row order of the two files.
\* The code builds one mapping per file from that file's own row order, so
\* this is violated, here for regular files already.
C13_SameNumberInBothFiles ==
    /\ (DeleteOgsDone /\ RegularMatch) => SameNumbers(TomoMapping, MatchMapping)
    /\ (SplitDone /\ RegularMatch) =>
          /\ SameNumbers(TheValue(og_maps)[1].mapping, TheValue(og_files.match1).star.mapping)
          /\ SameNumbers(TheValue(og_maps)[2].mapping, TheValue(og_files.match2).star.mapping)

\* matching.star after delete_ogs_from_star, and its two blocks
MatchWritten == fn = "delete_ogs_from_star" /\ fn_done /\ fn_out.err = "none"
OpticsOut == TheValue(TheValue(fn_out.star).optics)
ParticlesOut == TheValue(TheValue(fn_out.star).particles)

\* rlnOpticsGroup of data_optics is 1, 2, ..., N in row order, and every row of
\* data_particles has a group of data_optics
NumberedInRowOrder ==
    /\ \A i \in 1..Len(OpticsOut) : OpticsOut[i].rlnOpticsGroup = i
    /\ \A p \in 1..Len(ParticlesOut) :
          ParticlesOut[p].rlnOpticsGroup \in SeqToSet(Column(OpticsOut, "rlnOpticsGroup"))

SecondFileFailed == og_pc = "end" /\ og_status \in {"KeyError", "ValueError"}

\* C15: when delete_ogs or split_matchingstar fails on the second file of the
\* pair (matching.star without data_optics or data_particles, or a half without
\* optics group), no output for matching_tomograms.star has been written in
\* that run.  Both scripts finish and write the first file before they read
\* the second, so this is violated.
C15_NoOutputForFirstFile ==
    SecondFileFailed =>
        /\ og_files.tomo_full = None
        /\ og_files.tomo = None
        /\ og_files.tomo_original = None
        /\ og_files.tomo1 = None
        /\ og_files.tomo2 = None

----------------------------------------------------------------------------
(* Claims on the LST readers.                                              *)

ReaderCalled == fn \in LstReaders /\ fn_done

\* a data line with one of the row-level defects: a first token that is no
\* integer, no score=... token, or a score that is no number
Malformed(line) == line.ix = NotAnInt \/ line.score \in {NoField, NotANumber}

\* C16: a data line whose first token is not an integer, whose filter field is
\* missing or whose filter-field value is not numeric is skipped and never
\* aborts the run, in read_lst, read_lst1, read_lst2 and parse_lst_lines.
\* read_lst1 ends the run at a value that is not numeric (line 63), and
\* parse_lst_lines keeps a line whose first token is not an integer, so this is
\* violated.
C16_MalformedLineSkipped ==
    ReaderCalled =>
        /\ fn_out.exit = FALSE
        /\ fn = "parse_lst_lines" =>
              \A i \in 1..Len(fn_out.entries) : ~Malformed(fn_out.entries[i].line)

\* read_lst was called with a column to filter on
ReadLstFiltered == fn = "read_lst" /\ fn_done /\ fn_in.args.param # None

\* the named field of the line is present and numeric, and its value (its
\* absolute value when abs is set) is above greaterthan and below lessthan,
\* for the bounds that are given
FieldSatisfies(line, a) ==
    /\ FieldOf(line, TheValue(a.param)) \notin {NoField, NotANumber}
    /\ a.greaterthan # None =>
          (IF a.use_abs THEN Abs(FieldOf(line, TheValue(a.param)))
           ELSE FieldOf(line, TheValue(a.param))) > TheValue(a.greaterthan)
    /\ a.lessthan # None =>
          (IF a.use_abs THEN Abs(FieldOf(line, TheValue(a.param)))
           ELSE FieldOf(line, TheValue(a.param))) < TheValue(a.lessthan)

\* the tags of a list of lines, one per line, in order
TagsOfLines(lines) == [i \in 1..Len(lines) |-> read_lst_tag(lines[i].ix, lines[i].path)]

\* C17 as stated: read_lst keeps a data line exactly when its named field is
\* present and numeric and its value satisfies the strict bounds that are
\* given; the kept tags are in the order of the input lines, one per kept line
C17_AsStated ==
    ReadLstFiltered =>
        fn_out.kept = TagsOfLines(SelectSeq(fn_in.lines,
                                            LAMBDA line : FieldSatisfies(line, fn_in.args)))

\* C17, amended: the same for the data lines whose first token is an integer;
\* a line whose first token is not an integer is never kept
C17_KeptWhenFieldSatisfies ==
    ReadLstFiltered =>
        fn_out.kept = TagsOfLines(SelectSeq(fn_in.lines,
                                            LAMBDA line : /\ line.ix # NotAnInt
                                                          /\ FieldSatisfies(line, fn_in.args)))

\* two lines with different tags, the one with first token 1 first, are kept
\* under greaterthan with abs, in the order of the file
C17_Witness ==
    /\ ReadLstFiltered
    /\ fn_in.args.greaterthan # None
    /\ fn_in.args.use_abs
    /\ Len(fn_out.kept) = 2
    /\ fn_out.kept[1] # fn_out.kept[2]
    /\ fn_in.lines[1].ix = 1

\* the lines read_lst keeps, and the lines read_lst1 keeps
KeptByReadLst(lines, a) ==
    SelectSeq(lines, LAMBDA line : ReadLstKeeps(line, a.param, a.greaterthan,
                                                a.lessthan, a.use_abs))
KeptByReadLst1(lines, a) ==
    SelectSeq(lines, LAMBDA line : ReadLst1Line(line, a.param, a.threshold,
                                                a.mode, a.use_abs) = "keep")

\* C18: the filter applied again, with the same field, thresholds, mode and abs
\* setting, to the lines it kept in a first application keeps all of those
\* lines, in the same order (read_lst), and the same set of them (read_lst1)
C18_FilterIdempotent ==
    /\ (fn = "read_lst" /\ fn_done) =>
          /\ fn_out.kept = TagsOfLines(KeptByReadLst(fn_in.lines, fn_in.args))
          /\ read_lst(KeptByReadLst(fn_in.lines, fn_in.args), fn_in.args.param,
                      fn_in.args.greaterthan, fn_in.args.lessthan, fn_in.args.use_abs)
                = fn_out.kept
    /\ (fn = "read_lst1" /\ fn_done /\ ~fn_out.exit) =>
          read_lst1(KeptByReadLst1(fn_in.lines, fn_in.args), fn_in.args.param,
                    fn_in.args.threshold, fn_in.args.mode, fn_in.args.use_abs)
             = fn_out

\* a first application that dropped the first line and kept the second
C18_Witness ==
    /\ fn = "read_lst" /\ fn_done
    /\ fn_in.args.param # None /\ fn_in.args.lessthan # None
    /\ Len(fn_in.lines) = 2
    /\ KeptByReadLst(fn_in.lines, fn_in.args) = <<fn_in.lines[2]>>
    /\ Len(fn_out.kept) = 1

----------------------------------------------------------------------------
(* Claims on the STAR loop scanner of divide_histogram.py.                 *)

ScanCalled == fn = "scan_star" /\ fn_done

\* C19: a blank line or a '#' comment line inserted anywhere in a STAR file
\* leaves the loops found by find_loops_in_star, each loop's header columns
\* and each loop's data rows (parse_star_loop_values) unchanged, and never
\* makes the scan fail.  The scanner ends the headers at such a line and takes
\* a comment line for a data row, so this is violated.
C19_InsertionChangesNothing ==
    ScanCalled => (fn_out.after.err = "none" /\ fn_out.after = fn_out.before)

ParseStarCalled == fn = "parse_star_lines" /\ fn_done

\* the loops of the file with their header columns and data rows, the requested
\* column as it is looked up, and the loops that have it in their header
LoopsOfFile == scan_star(fn_in.lines).loops
Requested == WithUnderscore(fn_in.column_name)
LoopsHaving == {i \in 1..Len(LoopsOfFile) : Requested \in SeqToSet(LoopsOfFile[i].header_lines)}

\* the first loop that has the column, the position of the column in its
\* header (from 1), and its data rows with at least that many tokens
FirstHaving == LoopsOfFile[MinOf(LoopsHaving)]
ColumnPosition == CHOOSE p \in 1..Len(FirstHaving.header_lines) :
                      FirstHaving.header_lines[p] = Requested
LongEnough == SelectSeq(FirstHaving.data, LAMBDA row : Len(row.tokens) >= ColumnPosition)

\* C20: when the requested column is in no loop's header, parse_star_lines
\* raises an error and returns no entries; when it is in a header, the entries
\* come from the first loop that has it, and a data row with fewer tokens than
\* the column's position is skipped with a warning while the remaining rows
\* are still parsed
C20_ColumnLookup ==
    ParseStarCalled =>
        /\ LoopsHaving = {} => (fn_out.err # "none" /\ fn_out.entries = <<>>)
        /\ LoopsHaving # {} =>
              /\ fn_out.err = "none"
              /\ fn_out.li = MinOf(LoopsHaving) - 1
              /\ fn_out.entries =
                    [i \in 1..Len(LongEnough) |->
                        Entry(LongEnough[i],
                              TheValue(ParseFloat(LongEnough[i].tokens[ColumnPosition])))]
              /\ fn_out.short = Len(FirstHaving.data) - Len(LongEnough)

\* two loops have the column; the first has a row with too few tokens before a
\* row that is parsed, the second has other rows
C20_Witness ==
    /\ ParseStarCalled
    /\ Cardinality(LoopsHaving) = 2
    /\ fn_out.err = "none"
    /\ fn_out.li = 0
    /\ fn_out.short = 1
    /\ Len(FirstHaving.data) = 2
    /\ Len(FirstHaving.data[1].tokens) < ColumnPosition
    /\ fn_out.entries = <<Entry(FirstHaving.data[2], 1)>>
    /\ LoopsOfFile[2].data # FirstHaving.data

\* the column is in no header and KeyError is raised
C20_WitnessAbsent ==
    /\ ParseStarCalled
    /\ LoopsHaving = {}
    /\ Len(LoopsOfFile) = 2
    /\ fn_out.err = "KeyError"

----------------------------------------------------------------------------
(* Claims on the LST files as text.                                        *)

LstWriters == {"star2lst", "divide_lst", "merge_lst"}
WroteFiles == fn \in LstWriters /\ fn_done

BeginsWithLst(file) == Len(file) > 0 /\ file[1] = LstHeader

\* C21: every LST file the scripts produce — the file of star2lst, every
\* bucket file of divide_histogram for an LST input, tmp.lst of lst2star's
\* merge_lst — begins with the line '#LST'.
C21_BeginsWithLst ==
    WroteFiles => \A i \in 1..Len(fn_out.files) : BeginsWithLst(fn_out.files[i])

DivideLstDone == fn = "divide_lst" /\ fn_done

\* the data lines of the input that have no token whose key is exactly the column
LacksColumn(line) ==
    line.kind = "data" /\ TokenSearch(line, fn_in.args.column) = NoField

\* C30: the LST field lookup of parse_lst_lines matches the field name
\* exactly: a line with no token 'c=...' but with a token whose key only
\* ends with c ('zscore=...' for the column 'score') is treated as lacking the
\* column and skipped, as read_lst of lst2star treats it; no entry and no
\* bucket file holds such a line.
C30_ExactFieldName ==
    DivideLstDone =>
        /\ \A k \in 1..Len(parse_lst_text(fn_in.lines, fn_in.args.column).entries) :
              ~LacksColumn(parse_lst_text(fn_in.lines, fn_in.args.column).entries[k].line)
        /\ \A i \in 1..Len(fn_out.files) : \A k \in 1..Len(fn_out.files[i]) :
              ~LacksColumn(fn_out.files[i][k])

DivideLstWrote == DivideLstDone /\ fn_out.err = "none" /\ ~fn_in.args.onlyhist

\* the value a line is binned by: the value of its column, absolute with --abs
BinValue(line) ==
    IF fn_in.args.use_abs THEN Abs(PatternSearch(line, fn_in.args.column))
    ELSE PatternSearch(line, fn_in.args.column)

\* the lines of the input that carry a number for the column
NumericLines(lines) ==
    SelectSeq(lines, LAMBDA ln : ln.kind = "data"
                         /\ PatternSearch(ln, fn_in.args.column) \notin {NoField, NotANumber})
BinValues(lines) == {BinValue(NumericLines(lines)[k]) : k \in 1..Len(NumericLines(lines))}

\* the lines of a bucket file after the comment lines of the input
RowsOfBucket(file, lines) == SubSeq(file, Len(HeaderLinesOf(lines)) + 1, Len(file))

RECURSIVE RowsOfBuckets(_, _)
RowsOfBuckets(files, lines) ==
    IF files = <<>> THEN <<>>
    ELSE RowsOfBucket(Head(files), lines) \o RowsOfBuckets(Tail(files), lines)

\* bucket i of the equal-width bins over [lo, hi] may hold the value v
InBin(v, i, bins, lo, hi) ==
    /\ (v - lo) * bins <= i * (hi - lo)
    /\ (i - 1) * (hi - lo) <= (v - lo) * bins

\* C26: every LST bucket file of divide_histogram is all comment lines of the
\* input, in input order and unchanged, followed by the original text of the
\* lines of the entries of that bucket, unchanged; with --abs the bucket is
\* chosen by the absolute value and the line written carries the signed value.
C26_BucketFileText ==
    DivideLstWrote =>
        /\ \A i \in 1..Len(fn_out.files) :
              /\ SubSeq(fn_out.files[i], 1, Len(HeaderLinesOf(fn_in.lines)))
                     = HeaderLinesOf(fn_in.lines)
              /\ \A k \in 1..Len(RowsOfBucket(fn_out.files[i], fn_in.lines)) :
                    /\ \E j \in 1..Len(fn_in.lines) :
                          fn_in.lines[j] = RowsOfBucket(fn_out.files[i], fn_in.lines)[k]
                    /\ RowsOfBucket(fn_out.files[i], fn_in.lines)[k].kind = "data"
                    /\ fn_in.args.samesize
                       \/ InBin(BinValue(RowsOfBucket(fn_out.files[i], fn_in.lines)[k]), i,
                                fn_in.args.bins,
                                MinOf(BinValues(fn_in.lines)), MaxOf(BinValues(fn_in.lines)))
        /\ Len(RowsOfBuckets(fn_out.files, fn_in.lines)) = Len(NumericLines(fn_in.lines))
        /\ fn_in.args.samesize =>
              \A k \in 2..Len(RowsOfBuckets(fn_out.files, fn_in.lines)) :
                  BinValue(RowsOfBuckets(fn_out.files, fn_in.lines)[k - 1])
                      <= BinValue(RowsOfBuckets(fn_out.files, fn_in.lines)[k])

\* with --abs and two bins, the line with the score below zero is in the second
\* file after a comment line, the line with the score above zero in the first
C26_Witness ==
    /\ DivideLstWrote
    /\ fn_in.args.use_abs
    /\ Len(fn_out.files) = 2
    /\ HeaderLinesOf(fn_in.lines) # <<>>
    /\ \E k \in 1..Len(fn_out.files[2]) :
          /\ fn_out.files[2][k].kind = "data"
          /\ PatternSearch(fn_out.files[2][k], fn_in.args.column) < 0
    /\ \E k \in 1..Len(fn_out.files[1]) :
          /\ fn_out.files[1][k].kind = "data"
          /\ PatternSearch(fn_out.files[1][k], fn_in.args.column) > 0

Star2LstDone == fn = "star2lst" /\ fn_done

\* n@path with 1 <= n <= 999999 written with six zero-padded digits, path without '@'
SixDigitName(name) ==
    /\ Len(SplitAt(name)) = 2
    /\ Len(SplitAt(name)[1]) = 6
    /\ \A k \in 1..6 : IsDigit(SplitAt(name)[1][k])
    /\ IntOfDigits(SplitAt(name)[1]) >= 1

\* particle i has its row in the file star2lst wrote, after the '#LST' line
RowWritten(i) == i + 1 <= Len(fn_out.files[1])

\* the tag read_lst of lst2star builds from the row of particle i
TagOfRow(i) == TagOfTokens(RowTokens(fn_out.files[1][i + 1]))

\* C27 as stated: for every rlnImageName n@path with six zero-padded digits,
\* 1 <= n <= 999999, and a path without '@', the tag lst2star builds from the
\* row star2lst writes is the original string.
C27_AsStated ==
    Star2LstDone =>
        \A i \in 1..Len(fn_in.names) :
            RowWritten(i) /\ SixDigitName(fn_in.names[i])
                => TagOfRow(i) = Some(fn_in.names[i])

\* C27: the same for every such rlnImageName whose path is not empty.
C27_IndexRoundTrip ==
    Star2LstDone =>
        \A i \in 1..Len(fn_in.names) :
            /\ RowWritten(i)
            /\ SixDigitName(fn_in.names[i])
            /\ SplitAt(fn_in.names[i])[2] # <<>>
            => TagOfRow(i) = Some(fn_in.names[i])

\* the second particle is 999999@a.m and the tag of its row is that string
C27_Witness ==
    /\ Star2LstDone
    /\ Len(fn_in.names) = 2
    /\ RowWritten(2)
    /\ SixDigitName(fn_in.names[2])
    /\ IntOfDigits(SplitAt(fn_in.names[2])[1]) = 999999
    /\ SplitAt(fn_in.names[2])[2] # <<>>
    /\ TagOfRow(2) = Some(fn_in.names[2])

----------------------------------------------------------------------------
(* Claims on delete_ogs for a tomograms file.                              *)

TomoWritten == fn = "delete_ogs_tomograms" /\ fn_done /\ fn_out.err = "none"

\* the first digit run of the row's rlnOpticsGroupName is a number of the delete set
InDeleteSet(row) ==
    \E e \in 1..Len(row.rlnOpticsGroupName) : \E s \in 1..e :
        /\ \A j \in s..e : IsDigit(row.rlnOpticsGroupName[j])
        /\ \A j \in 1..(s - 1) : ~IsDigit(row.rlnOpticsGroupName[j])
        /\ e = Len(row.rlnOpticsGroupName) \/ ~IsDigit(row.rlnOpticsGroupName[e + 1])
        /\ IntOfDigits(SubSeq(row.rlnOpticsGroupName, s, e)) \in fn_in.delete_ogs

GlobalIn == TheValue(fn_in.star.global)
GlobalOut == TheValue(TheValue(fn_out.star).global)
RowsToKeep == SelectSeq(GlobalIn, LAMBDA row : ~InDeleteSet(row))

\* a name outside its first digit run
AroundDigits(name) ==
    IF SearchDigits(name) = <<0, 0>> THEN <<name, <<>>>>
    ELSE <<SubSeq(name, 1, SearchDigits(name)[1] - 1),
           SubSeq(name, SearchDigits(name)[2] + 1, Len(name))>>

\* C22: delete_ogs on a tomograms file: data_global of the output holds
\* exactly the input rows whose rlnOpticsGroupName digit run is not in the
\* delete set, in their original relative order (their names renumbered in the
\* digit run only); the per-tomogram block named by the rlnTomoName of each
\* removed row is absent and every other block of the input is present.
C22_RowsAndBlocksDeleted ==
    TomoWritten =>
        /\ Column(GlobalOut, "rlnTomoName") = Column(RowsToKeep, "rlnTomoName")
        /\ \A i \in 1..Len(GlobalOut) :
              AroundDigits(GlobalOut[i].rlnOpticsGroupName)
                  = AroundDigits(RowsToKeep[i].rlnOpticsGroupName)
        /\ TheValue(fn_out.star).blocks
               = fn_in.star.blocks
                     \ {GlobalIn[i].rlnTomoName : i \in {j \in 1..Len(GlobalIn) :
                                                           InDeleteSet(GlobalIn[j])}}

\* a row is removed with its block, a row of another tomogram is kept with its
\* block, and a block without a row is still there
C22_Witness ==
    /\ TomoWritten
    /\ \E i \in 1..Len(GlobalIn) :
          InDeleteSet(GlobalIn[i]) /\ GlobalIn[i].rlnTomoName \in fn_in.star.blocks
    /\ \E i \in 1..Len(GlobalIn) :
          /\ ~InDeleteSet(GlobalIn[i])
          /\ GlobalIn[i].rlnTomoName \in TheValue(fn_out.star).blocks
    /\ Len(GlobalOut) < Len(GlobalIn)
    /\ TomoName(9) \in TheValue(fn_out.star).blocks

----------------------------------------------------------------------------
(* Claims on the objects the functions are given.                          *)

StoreCallDone == fn \in StoreFunctions /\ fn_done

\* C23: the renumbering and binning transforms do not modify their inputs:
\* after renumber_global_names, renumber_optics_and_particles, assign_bins or
\* assign_bins_same_size returns (or raises), the table or entry list passed
\* in has the same rows, in the same order, with the same values as before.
C23_InputsUnchanged ==
    StoreCallDone =>
        \A obj \in ArgumentsOf(fn) : fn_out.store[obj] = fn_in.store[obj]

\* renumber_optics_and_particles returned tables that differ from the ones it
\* was given, in both columns of data_optics and in data_particles
C23_Witness ==
    /\ StoreCallDone
    /\ fn = "renumber_optics_and_particles"
    /\ Column(fn_out.store["df_opt_new"], "rlnOpticsGroup")
           # Column(fn_in.store["df_optics"], "rlnOpticsGroup")
    /\ Column(fn_out.store["df_opt_new"], "rlnOpticsGroupName")
           # Column(fn_in.store["df_optics"], "rlnOpticsGroupName")
    /\ fn_out.store["df_part_new"] # fn_in.store["df_particles"]
    /\ fn_out.store["df_optics"] = fn_in.store["df_optics"]

----------------------------------------------------------------------------
(* Claims on the order of the equal-count buckets.                         *)

\* the buckets of the result one after the other
RECURSIVE Concatenated(_)
Concatenated(bs) == IF bs = <<>> THEN <<>> ELSE Head(bs) \o Concatenated(Tail(bs))

AllBuckets == Concatenated(res.buckets)

\* C24: assign_bins_same_size: the returned buckets one after the other are
\* the in-range entries sorted ascending by value, entries of equal value in
\* their input order; no value in bucket i is greater than a value in bucket i+1.
C24_BucketsSorted ==
    SameSizeCalled /\ BinningReturned =>
        /\ Len(AllBuckets) = TotalInRange
        /\ \A e \in EntrySet : InsideRange(e) => \E k \in 1..Len(AllBuckets) : AllBuckets[k] = e
        /\ \A k \in 1..Len(AllBuckets) : \A l \in (k + 1)..Len(AllBuckets) :
              /\ Le(AllBuckets[k].val, AllBuckets[l].val)
              /\ AllBuckets[k].val = AllBuckets[l].val
                    => AllBuckets[k].line < AllBuckets[l].line
        /\ \A i \in BucketIds : \A j \in BucketIds :
              i < j => \A k \in 1..Len(Bucket(i)) : \A l \in 1..Len(Bucket(j)) :
                          ~Gt(Bucket(i)[k].val, Bucket(j)[l].val)

\* the greater value comes first in the input and is in the later bucket
C24_Witness ==
    /\ SameSizeCalled /\ BinningReturned
    /\ args.bins = 2
    /\ Len(pe_entries) = 2
    /\ Gt(pe_entries[1].val, pe_entries[2].val)
    /\ Bucket(0) = <<pe_entries[2]>>
    /\ Bucket(1) = <<pe_entries[1]>>

----------------------------------------------------------------------------
(* Claims on the names after a renumbering.                                *)

RenumberStoreDone ==
    /\ fn \in {"renumber_global_names", "renumber_global_names_S",
               "renumber_optics_and_particles"}
    /\ fn_done

\* the column rlnOpticsGroupName given to the function and the one it returned
NamesGiven ==
    Column(fn_in.store[IF fn = "renumber_optics_and_particles" THEN "df_optics"
                       ELSE "df_global"], "rlnOpticsGroupName")
NamesReturned ==
    Column(fn_out.store[IF fn = "renumber_optics_and_particles" THEN "df_opt_new"
                        ELSE "df_new"], "rlnOpticsGroupName")

HasDigit(name) == \E k \in 1..Len(name) : IsDigit(name[k])

\* the first and the last position of the first digit run of a name that has one
FirstRun(name) ==
    CHOOSE r \in (1..Len(name)) \X (1..Len(name)) :
        /\ r[1] <= r[2]
        /\ \A k \in r[1]..r[2] : IsDigit(name[k])
        /\ \A k \in 1..(r[1] - 1) : ~IsDigit(name[k])
        /\ r[2] = Len(name) \/ ~IsDigit(name[r[2] + 1])

TextBefore(name) == SubSeq(name, 1, FirstRun(name)[1] - 1)
TextAfter(name) == SubSeq(name, FirstRun(name)[2] + 1, Len(name))
IdOf(name) == IntOfDigits(SubSeq(name, FirstRun(name)[1], FirstRun(name)[2]))

\* what stands in the result between the text before and the text after the run
InPlaceOfRun(name, result) ==
    SubSeq(result, Len(TextBefore(name)) + 1, Len(result) - Len(TextAfter(name)))

\* C25: applying a mapping to a name replaces only the first digit run: for a
\* name whose first digit run is an ID of the mapping, the result is the text
\* before the run, the decimal form of the mapped ID and the text after the run
\* (later digit runs included); a name with no digit run is returned
\* unchanged; what stands in place of the run is always a number.
C25_FirstDigitRunReplaced ==
    RenumberStoreDone =>
        /\ Len(NamesReturned) = Len(NamesGiven)
        /\ \A i \in 1..Len(NamesGiven) :
              IF ~HasDigit(NamesGiven[i]) THEN NamesReturned[i] = NamesGiven[i]
              ELSE /\ IdOf(NamesGiven[i]) \in DOMAIN fn_out.mapping
                      => NamesReturned[i]
                             = TextBefore(NamesGiven[i])
                                   \o Str(fn_out.mapping[IdOf(NamesGiven[i])])
                                   \o TextAfter(NamesGiven[i])
                   /\ InPlaceOfRun(NamesGiven[i], NamesReturned[i]) # <<>>
                   /\ \A k \in 1..Len(InPlaceOfRun(NamesGiven[i], NamesReturned[i])) :
                         IsDigit(InPlaceOfRun(NamesGiven[i], NamesReturned[i])[k])

\* the name g07x3 became g1x3 after a name without digits was returned as it was
C25_Witness ==
    /\ RenumberStoreDone
    /\ \E i \in 1..Len(NamesGiven) :
          /\ NamesGiven[i] = <<"g", "0", "7", "x", "3">>
          /\ NamesReturned[i] = <<"g", "1", "x", "3">>
    /\ \E i \in 1..Len(NamesGiven) :
          ~HasDigit(NamesGiven[i]) /\ NamesReturned[i] = NamesGiven[i]

----------------------------------------------------------------------------
(* Claims on find_loops_in_star.                                           *)

ScanReturned == fn = "find_loops_in_star" /\ fn_done

\* the line at a position starts with '_', 'loop_' or 'data_'
StartsStructure(p) == At(fn_in.lines, p).kind \in {"header", "loop_", "data_"}

LoopWellFormed(loops, li) ==
    /\ loops[li].loop_start < loops[li].header_end
    /\ loops[li].header_end <= loops[li].data_start
    /\ loops[li].data_start <= loops[li].data_end
    /\ loops[li].data_end <= Len(fn_in.lines)
    /\ (/\ loops[li].loop_start + 1 < Len(fn_in.lines)
        /\ At(fn_in.lines, loops[li].loop_start + 1).kind = "header")
       => loops[li].header_start = Some(loops[li].loop_start + 1)
    /\ li > 1 => loops[li].loop_start >= loops[li - 1].data_end
    /\ \A p \in loops[li].data_start..(loops[li].data_end - 1) : ~StartsStructure(p)

LoopsWellFormed == \A li \in 1..Len(fn_out.loops) : LoopWellFormed(fn_out.loops, li)

\* C28: find_loops_in_star terminates on every list of lines and returns
\* loops in increasing position that do not overlap: for each loop, loop_start
\* < header_end <= data_start <= data_end <= number of lines, header_start is
\* loop_start + 1 whenever the loop has a header line, each loop_start is at or
\* after the previous loop's data_end, and no line of a data region starts
\* with '_', 'loop_' or 'data_'.  The loops returned step by step are those of
\* the definition find_loops_in_star above.
C28_TerminatesWithDisjointLoops ==
    /\ <>ScanReturned
    /\ [](ScanReturned => LoopsWellFormed /\ fn_out.loops = find_loops_in_star(fn_in.lines))

\* two loops were returned, the first with a header line and a data row, the
\* second with neither
C28_Witness ==
    /\ ScanReturned
    /\ Len(fn_out.loops) = 2
    /\ fn_out.loops[1].header_start # None
    /\ fn_out.loops[1].data_end > fn_out.loops[1].data_start
    /\ fn_out.loops[2].header_start = None
    /\ fn_out.loops[2].data_end = fn_out.loops[2].data_start

\* ---------------------------------------------------------------------------
\* The STAR bucket files of divide_histogram
\* ---------------------------------------------------------------------------

DivideStarWrote ==
    /\ fn = "divide_star"
    /\ fn_done
    /\ fn_out.err = "none"
    /\ fn_out.files # <<>>

\* the loop that holds the column, and the number of lines after its data region
TargetLoop ==
    At(find_loops_in_star(fn_in.lines),
       parse_star_lines(fn_in.lines, fn_in.args.column).li)
LinesAfter == Len(fn_in.lines) - TargetLoop.data_end

\* the buckets of the run: the binning of the entries read from the file
BucketsOfRun ==
    IF fn_in.args.samesize
    THEN assign_bins_same_size(
             InUnits(parse_star_lines(fn_in.lines, fn_in.args.column).entries),
             fn_in.args.bins,
             computed_min(InUnits(parse_star_lines(fn_in.lines, fn_in.args.column).entries)),
             computed_max(InUnits(parse_star_lines(fn_in.lines, fn_in.args.column).entries))).buckets
    ELSE assign_bins(
             InUnits(parse_star_lines(fn_in.lines, fn_in.args.column).entries),
             fn_in.args.bins,
             computed_min(InUnits(parse_star_lines(fn_in.lines, fn_in.args.column).entries)),
             computed_max(InUnits(parse_star_lines(fn_in.lines, fn_in.args.column).entries))).buckets

\* the lines of a bucket file before, in and after the place of the data region
FileBefore(f, loop) == SubSeq(f, 1, loop.data_start)
FileAfter(f, after) == SubSeq(f, Len(f) - after + 1, Len(f))
FileRows(f, loop, after) ==
    SelectSeq(SubSeq(f, loop.data_start + 1, Len(f) - after),
              LAMBDA ln : ln.kind # "blank")

\* what one bucket file holds
BucketFileKeeps(f, bucket, lines, loop, after) ==
    /\ Len(f) >= loop.data_start + after
    /\ FileBefore(f, loop) = SubSeq(lines, 1, loop.data_start)
    /\ FileAfter(f, after) = SubSeq(lines, loop.data_end + 1, Len(lines))
    /\ FileRows(f, loop, after) = [k \in 1..Len(bucket) |-> bucket[k].line]
    /\ \A k \in 1..Len(bucket) :
          \E n \in (loop.data_start + 1)..loop.data_end : bucket[k].line = lines[n]

\* C29: every STAR bucket file begins with the input lines before the target
\* loop's data region, unchanged and in order (the header lines of the loop once
\* each), ends with the input lines from the end of that data region on, and has
\* between them, as its data rows, the row lines of that bucket's entries, each a
\* line of the input's data region; so two bucket files differ in these rows only.
C29_OnlyTargetRowsDiffer ==
    DivideStarWrote =>
        /\ Len(fn_out.files) = Len(BucketsOfRun)
        /\ \A i \in 1..Len(fn_out.files) :
              BucketFileKeeps(fn_out.files[i], BucketsOfRun[i], fn_in.lines,
                              TargetLoop, LinesAfter)

\* a run on a file of two blocks whose first loop is the target, with a comment
\* or blank line in its data region, whose two bucket files hold different rows
C29_Witness ==
    /\ DivideStarWrote
    /\ Len(find_loops_in_star(fn_in.lines)) = 2
    /\ parse_star_lines(fn_in.lines, fn_in.args.column).li = 0
    /\ LinesAfter > 0
    /\ \E n \in (TargetLoop.data_start + 1)..TargetLoop.data_end :
          fn_in.lines[n].kind \in {"blank", "comment"}
    /\ Len(fn_out.files) = 2
    /\ FileRows(fn_out.files[1], TargetLoop, LinesAfter) # <<>>
    /\ FileRows(fn_out.files[2], TargetLoop, LinesAfter) # <<>>
    /\ FileRows(fn_out.files[1], TargetLoop, LinesAfter)
           # FileRows(fn_out.files[2], TargetLoop, LinesAfter)

============================================================================
